---- MODULE Spec2Model ----
(***************************************************************************)
(* A model of linux-voice-assistant: the ESPHome frame decoder of          *)
(* api_server.py (specifications SpecFrame and SpecPackets), the voice     *)
(* satellite state machine of satellite.py with the audio thread of        *)
(* __main__.py and the completion callbacks of the TTS player              *)
(* (specification Spec), the process_audio loop of __main__.py             *)
(* (specification SpecEngine) with the wake word configuration of          *)
(* satellite.py (specification SpecConfig), the MpvMediaPlayer of          *)
(* mpv_player.py (specification SpecPlayer), one connected session with    *)
(* the steps of stop() and of the timer chime (specification SpecRun),     *)
(* the writes handed to the event loop (specification SpecOrder), and the  *)
(* audio queue at shutdown (specification SpecShutdown).                   *)
(***************************************************************************)
EXTENDS Integers, Sequences, FiniteSets, TLC

\* ------------------------------------------------------------------------
\* Bounds
\* ------------------------------------------------------------------------

\* The longest byte stream a peer writes to one connection.
MaxWire == 7

\* The connections the server accepts, numbered in the order of acceptance.
MaxSessions == 2

\* The end-of-playback notifications of the TTS player that may be waiting
\* for the player's event thread.
MaxPending == 1

\* The byte values of the streams: 0 (the preamble, a zero length, the last
\* byte of a varint), 1 and 5 (lengths, payload bytes and the message types of
\* HelloRequest and DisconnectRequest) and 128 (a varint continuation byte).
Byte == {0, 1, 5, 128}

\* ------------------------------------------------------------------------
\* Frame layer: APIServer of api_server.py
\* ------------------------------------------------------------------------

VARIABLES
    stream,     \* the bytes the peer writes to the connection, in order
    off,        \* how many of them have been handed to data_received
    conn        \* the APIServer object and what it did (dispatches, writes, log)

fvars == <<stream, off, conn>>

\* Satellite: VoiceSatelliteProtocol, ServerState, the audio thread and the
\* players.
VARIABLES
    status,       \* per session: "unborn", "made", "live", "closing", "lost", "failed"
    sess,         \* per session: the run state fields of VoiceSatelliteProtocol
    satellite,    \* ServerState.satellite: a session, or 0 for None
    connected,    \* ServerState.connected
    muted,        \* ServerState.muted
    entities,     \* ServerState.entities, by kind
    stop_active,  \* ServerState.stop_word.is_active
    tts,          \* ServerState.tts_player
    music,        \* ServerState.music_player
    audio,        \* where the process_audio thread is
    out,          \* the messages the last step gave to the transport
    wrote         \* the thread that sent them, and how they were written

svars == <<status, sess, satellite, connected, muted, entities,
           stop_active, tts, music, audio, out, wrote>>

\* Engine: the process_audio loop of __main__.py and the wake word
\* configuration of ServerState.
VARIABLES
    wake_words,          \* ServerState.wake_words: the ids of the loaded models, in insertion order
    is_active,           \* the ids of the loaded models whose is_active is set
    wake_words_changed,  \* ServerState.wake_words_changed
    eng,                 \* the locals of process_audio and where it is
    cfg,                 \* the VoiceAssistantSetConfiguration being handled
    now,                 \* time.monotonic(), in seconds
    did,                 \* what the last step of process_audio did
    forwarded            \* the time of the last call of wakeup(), -1 before the first

evars == <<wake_words, is_active, wake_words_changed, eng, cfg, now, did,
           forwarded>>

\* Player: one MpvMediaPlayer of mpv_player.py.
VARIABLES
    mpv,        \* the fields of the MpvMediaPlayer and of its python-mpv instance
    endfile,    \* the end-file events python-mpv has not delivered yet
    workers,    \* the threads running _play_subprocess_playlist
    plays       \* per play() call: what became of its done_callback

pvars == <<mpv, endfile, workers, plays>>

\* Threads: what the threads of the program hand to each other.
VARIABLES
    stop_call,    \* the last call of stop(): what it found, what was sent since
    replays,      \* the threads asleep in the done callback of the timer chime
    loop_calls,   \* the writes given to call_soon_threadsafe and not yet run
    issued,       \* the number of pipeline start requests sent so far
    reached,      \* the start requests and audio chunks the transport has got
    audio_queue,  \* ServerState.audio_queue
    finishing     \* the session whose _tts_finished a player thread is inside

xvars == <<stop_call, replays, loop_calls, issued, reached, audio_queue, finishing>>

vars == <<stream, off, conn, status, sess, satellite, connected, muted,
          entities, stop_active, tts, music, audio, out, wrote, evars, pvars,
          xvars>>

\* Message type numbers of aioesphomeapi's MESSAGE_TYPE_TO_PROTO.
HelloRequestType == 1
ConnectRequestType == 3
DisconnectRequestType == 5
PingRequestType == 7

\* A message APIServer does not answer itself and hands to handle_message.
ListEntitiesRequestType == 11

\* The type numbers that have a message class, among those the streams encode.
KnownTypes ==
    {HelloRequestType, ConnectRequestType, DisconnectRequestType,
     PingRequestType, ListEntitiesRequestType}

\* APIServer.__init__: no buffer, no transport.  dispatched, handled, written,
\* err and raised record what the object did: the packets handed to
\* process_packet, the types handed on to handle_message, the responses given
\* to the transport, the error logged by the last data_received and whether
\* process_packet raised out of it.
APIServerInit ==
    [buffer |-> <<>>, has_buffer |-> FALSE, buffer_len |-> 0, pos |-> 0,
     transport |-> "none", writelines |-> FALSE,
     dispatched |-> <<>>, handled |-> <<>>, written |-> <<>>,
     err |-> "none", raised |-> FALSE]

\* send_messages: nothing is written without a write function.
send_messages(st, msgs) ==
    IF ~st.writelines \/ msgs = <<>>
    THEN st
    ELSE [st EXCEPT !.written = @ \o msgs]

\* process_packet with the transport closed before DisconnectRequest is
\* answered.
process_packet_close_first(st, msg_type, packet_data) ==
    LET got == [st EXCEPT !.dispatched =
                    Append(@, [type |-> msg_type, data |-> packet_data])]
    IN  IF msg_type \notin KnownTypes
        THEN [got EXCEPT !.raised = TRUE]
        ELSE IF msg_type = HelloRequestType
        THEN send_messages(got, <<"HelloResponse">>)
        ELSE IF msg_type = ConnectRequestType
        THEN send_messages(got, <<"ConnectResponse">>)
        ELSE IF msg_type = DisconnectRequestType
        THEN LET closed == IF got.transport = "open"
                           THEN [got EXCEPT !.transport = "closed",
                                            !.writelines = FALSE]
                           ELSE got
             IN  send_messages(closed, <<"DisconnectResponse">>)
        ELSE IF msg_type = PingRequestType
        THEN send_messages(got, <<"PingResponse">>)
        ELSE [got EXCEPT !.handled = Append(@, msg_type)]

\* process_packet with PingRequest handed on to handle_message.
process_packet_ping_unanswered(st, msg_type, packet_data) ==
    LET got == [st EXCEPT !.dispatched =
                    Append(@, [type |-> msg_type, data |-> packet_data])]
    IN  IF msg_type \notin KnownTypes
        THEN [got EXCEPT !.raised = TRUE]
        ELSE IF msg_type = HelloRequestType
        THEN send_messages(got, <<"HelloResponse">>)
        ELSE IF msg_type = ConnectRequestType
        THEN send_messages(got, <<"ConnectResponse">>)
        ELSE IF msg_type = DisconnectRequestType
        THEN LET sent == send_messages(got, <<"DisconnectResponse">>)
             IN  IF sent.transport = "open"
                 THEN [sent EXCEPT !.transport = "closed", !.writelines = FALSE]
                 ELSE sent
        ELSE [got EXCEPT !.handled = Append(@, msg_type)]

\* process_packet: the message class is looked up first (a KeyError for a type
\* without one); HelloRequest, ConnectRequest and PingRequest are answered,
\* DisconnectRequest is answered and the transport closed, anything else goes
\* to handle_message.
process_packet(st, msg_type, packet_data) ==
    LET got == [st EXCEPT !.dispatched =
                    Append(@, [type |-> msg_type, data |-> packet_data])]
    IN  IF msg_type \notin KnownTypes
        THEN [got EXCEPT !.raised = TRUE]
        ELSE IF msg_type = HelloRequestType
        THEN send_messages(got, <<"HelloResponse">>)
        ELSE IF msg_type = ConnectRequestType
        THEN send_messages(got, <<"ConnectResponse">>)
        ELSE IF msg_type = DisconnectRequestType
        THEN LET sent == send_messages(got, <<"DisconnectResponse">>)
             IN  IF sent.transport = "open"
                 THEN [sent EXCEPT !.transport = "closed", !.writelines = FALSE]
                 ELSE sent
        ELSE IF msg_type = PingRequestType
        THEN send_messages(got, <<"PingResponse">>)
        ELSE [got EXCEPT !.handled = Append(@, msg_type)]

\* Python integers are unbounded; the model's are not.  Every value of 2^28 or
\* more is represented by 2^28: as a preamble it is not 0, as a length it
\* exceeds every buffer and as a type it names no message.
Huge == 128 * 128 * 128 * 128

RECURSIVE Pow128(_)
Pow128(n) == IF n = 0 THEN 1 ELSE 128 * Pow128(n - 1)

\* (val & 0x7F) << bitpos, for bitpos = 7 * groups
shifted(val, groups) ==
    IF val % 128 = 0 THEN 0
    ELSE IF groups >= 4 THEN Huge
    ELSE (val % 128) * Pow128(groups)

RECURSIVE varuint_loop(_, _, _, _, _)
varuint_loop(cstr, buffer_len, pos, result, groups) ==
    IF buffer_len > pos
    THEN LET val == cstr[pos + 1]
             sum == result + shifted(val, groups)
             acc == IF sum > Huge THEN Huge ELSE sum
         IN  IF val < 128
             THEN [val |-> acc, pos |-> pos + 1]
             ELSE varuint_loop(cstr, buffer_len, pos + 1, acc, groups + 1)
    ELSE [val |-> -1, pos |-> pos]

\* _read_varuint: 7 bits per byte, least significant group first; -1 when the
\* buffer runs out.  The result carries the new _pos.
read_varuint(st) ==
    IF ~st.has_buffer \/ st.buffer = <<>>
    THEN [val |-> -1, pos |-> st.pos]
    ELSE varuint_loop(st.buffer, st.buffer_len, st.pos, 0, 0)

\* _remove_from_buffer: drop the frame that ends at _pos.
remove_from_buffer(st) ==
    LET end_of_frame_pos == st.pos
        left == st.buffer_len - end_of_frame_pos
    IN  IF left = 0
        THEN [st EXCEPT !.buffer_len = 0, !.buffer = <<>>, !.has_buffer = FALSE]
        ELSE [st EXCEPT !.buffer_len = left,
                        !.buffer = SubSeq(st.buffer, end_of_frame_pos + 1,
                                          left + end_of_frame_pos)]

\* The while loop of data_received.
RECURSIVE frame_loop(_)
frame_loop(st) ==
    IF st.buffer_len < 3
    THEN st
    ELSE
    LET s0 == [st EXCEPT !.pos = 0]
        preamble == read_varuint(s0)
        s1 == [s0 EXCEPT !.pos = preamble.pos]
        length == read_varuint(s1)
        s2 == [s1 EXCEPT !.pos = length.pos]
        msg_type == read_varuint(s2)
        s3 == [s2 EXCEPT !.pos = msg_type.pos]
    IN  IF preamble.val # 0
        THEN [s1 EXCEPT !.err = "preamble"]
        ELSE IF length.val = -1
        THEN [s2 EXCEPT !.err = "length"]
        ELSE IF msg_type.val = -1
        THEN [s3 EXCEPT !.err = "type"]
        ELSE IF length.val = 0
        THEN LET done == process_packet(remove_from_buffer(s3), msg_type.val, <<>>)
             IN  IF done.raised THEN done ELSE frame_loop(done)
        ELSE LET new_pos == s3.pos + length.val
             IN  IF s3.buffer_len < new_pos
                 THEN s3
                 ELSE LET packet_data == SubSeq(s3.buffer, s3.pos + 1, new_pos)
                          s4 == [s3 EXCEPT !.pos = new_pos]
                          done == process_packet(remove_from_buffer(s4),
                                                 msg_type.val, packet_data)
                      IN  IF done.raised THEN done ELSE frame_loop(done)

\* data_received with the bytes kept from earlier calls forgotten.
data_received_overwrite(st, data) ==
    frame_loop([st EXCEPT !.err = "none", !.buffer = data, !.has_buffer = TRUE,
                          !.buffer_len = Len(data)])

\* data_received: append to the buffer, then decode what is complete.
data_received(st, data) ==
    LET fresh == [st EXCEPT !.err = "none"]
        joined == IF ~fresh.has_buffer
                  THEN [fresh EXCEPT !.buffer = data, !.has_buffer = TRUE,
                                     !.buffer_len = Len(data)]
                  ELSE [fresh EXCEPT !.buffer = @ \o data,
                                     !.buffer_len = @ + Len(data)]
    IN  frame_loop(joined)

\* APIServer.connection_made
connection_made(st) ==
    [st EXCEPT !.transport = "open", !.writelines = TRUE]

\* APIServer.connection_lost: the transport and the write function are
\* dropped; the receive buffer fields are not touched.
connection_lost(st) ==
    [st EXCEPT !.transport = "lost", !.writelines = FALSE]

RECURSIVE SeqsUpTo(_, _)
SeqsUpTo(S, n) ==
    IF n = 0
    THEN {<<>>}
    ELSE LET shorter == SeqsUpTo(S, n - 1)
         IN  shorter \cup {Append(q, b) : q \in {x \in shorter : Len(x) = n - 1}, b \in S}

FrameInit ==
    /\ stream \in SeqsUpTo(Byte, MaxWire)
    /\ off = 0
    /\ conn = APIServerInit

\* The frame layer with no stream to decode.
FrameIdle ==
    /\ stream = <<>>
    /\ off = 0
    /\ conn = APIServerInit

\* The event loop reports the new connection.
FConnectionMade ==
    /\ conn.transport = "none"
    /\ conn' = connection_made(conn)
    /\ UNCHANGED <<stream, off>>
    /\ UNCHANGED <<svars, evars, pvars, xvars>>

\* The event loop hands the next n bytes of the stream to data_received.  It
\* reads only from an open transport; an exception out of data_received makes
\* it drop the connection, which it reports with connection_lost.
FDataReceived ==
    /\ conn.transport = "open"
    /\ \E n \in 1..(Len(stream) - off) :
          LET after == data_received(conn, SubSeq(stream, off + 1, off + n))
          IN  /\ conn' = IF after.raised THEN connection_lost(after) ELSE after
              /\ off' = off + n
    /\ UNCHANGED stream
    /\ UNCHANGED <<svars, evars, pvars, xvars>>

\* The peer goes away, or the transport closed by a DisconnectRequest is
\* torn down.
FConnectionLost ==
    /\ conn.transport \in {"open", "closed"}
    /\ conn' = connection_lost(conn)
    /\ UNCHANGED <<stream, off>>
    /\ UNCHANGED <<svars, evars, pvars, xvars>>

FrameNext ==
    \/ FConnectionMade
    \/ FDataReceived
    \/ FConnectionLost

\* The longest run of frames a peer writes in the streams made of whole
\* frames.
MaxFrames == 3

\* The type numbers of these frames: the five with a message class, and 0,
\* which has none.
PacketTypes == KnownTypes \cup {0}

\* make_plain_text_packets for a message with an empty payload: preamble 0,
\* length 0, the type.
Frame(msg_type) == <<0, 0, msg_type>>

RECURSIVE FramesUpTo(_)
FramesUpTo(n) ==
    IF n = 0
    THEN {<<>>}
    ELSE LET shorter == FramesUpTo(n - 1)
         IN  shorter \cup {q \o Frame(t) : q \in {x \in shorter : Len(x) = 3 * (n - 1)},
                                            t \in PacketTypes}

\* A peer that writes well-formed frames only.
PacketsInit ==
    /\ stream \in FramesUpTo(MaxFrames)
    /\ off = 0
    /\ conn = APIServerInit

\* ------------------------------------------------------------------------
\* Satellite: VoiceSatelliteProtocol of satellite.py, the audio thread of
\* __main__.py, the players of mpv_player.py
\* ------------------------------------------------------------------------

Sessions == 1..MaxSessions

\* ServerState.satellite = None
NoSession == 0

\* The run state a session is constructed with, and is reset to when its
\* connection is lost.  tts_url is TRUE when a URL is held.
FreshRun ==
    [is_streaming_audio |-> FALSE, tts_url |-> FALSE, tts_played |-> FALSE,
     continue_conversation |-> FALSE, timer_finished |-> FALSE,
     pipeline_active |-> FALSE]

\* MpvMediaPlayer.__init__ of the TTS player: nothing playing, no done
\* callback.  pending counts the ends of playback (a file that finished, or
\* one that stop() cut) the player's event thread has not handled yet.
IdlePlayer ==
    [playing |-> "none", done_callback |-> "none", owner |-> NoSession,
     pending |-> 0]

\* The music player: its is_playing flag and whether its volume is ducked.
IdleMusic == [is_playing |-> FALSE, ducked |-> FALSE]

\* Nothing was written in the step.
NotWritten == [thread |-> "none", how |-> "none"]

\* The event loop thread wrote, calling the write function itself.
Inline == [thread |-> "loop", how |-> "inline"]

\* The state a handler of session s works on: the session's run state, the
\* shared stop word flag and players, the messages it has written, whether
\* the session has its write function (_writelines) and its loop (_loop,
\* _loop_thread_id), and the thread the handler runs on.
World(s) ==
    [run |-> sess[s], stop |-> stop_active, tts |-> tts, music |-> music,
     out |-> <<>>, wrote |-> NotWritten,
     writelines |-> status[s] \in {"made", "live"},
     loop |-> status[s] \in {"made", "live", "closing"},
     thread |-> "loop"]

\* The handler runs on thread t: "loop", "audio" (process_audio) or "player"
\* (the event thread of the TTS player).
OnThread(w, t) == [w EXCEPT !.thread = t]

\* send_messages that calls the write function on whatever thread it is on.
send_inline(w, msgs) ==
    IF ~w.writelines \/ msgs = <<>>
    THEN w
    ELSE [w EXCEPT !.out = @ \o msgs,
                   !.wrote = [thread |-> w.thread, how |-> "inline"]]

\* send_messages of the session: dropped when there is no write function;
\* given to call_soon_threadsafe when the thread is not the loop's; written
\* inline otherwise.
send(w, msgs) ==
    IF ~w.writelines \/ msgs = <<>>
    THEN w
    ELSE IF w.loop /\ w.thread # "loop"
    THEN [w EXCEPT !.out = @ \o msgs,
                   !.wrote = [thread |-> w.thread, how |-> "scheduled"]]
    ELSE [w EXCEPT !.out = @ \o msgs,
                   !.wrote = [thread |-> w.thread, how |-> "inline"]]

\* MpvMediaPlayer.stop: what is playing is cut, and its end is reported to the
\* event thread later; the done callback stays registered.
player_stop(t) ==
    IF t.playing = "none"
    THEN t
    ELSE [t EXCEPT !.playing = "none", !.pending = @ + 1]

\* MpvMediaPlayer.play: stop, then register the callback and start.
player_play(t, what, done_callback, s) ==
    [player_stop(t) EXCEPT !.playing = what, !.done_callback = done_callback,
                           !.owner = IF done_callback = "none" THEN NoSession ELSE s]

duck(w) == [w EXCEPT !.music.ducked = TRUE]

unduck(w) == [w EXCEPT !.music.ducked = FALSE]

\* _tts_finished without the unduck.
tts_finished_no_unduck(w) ==
    LET told == send([w EXCEPT !.stop = FALSE], <<"VoiceAssistantAnnounceFinished">>)
        continue_conversation == w.run.continue_conversation
        cleared == [told EXCEPT !.run.continue_conversation = FALSE]
    IN  IF continue_conversation
        THEN [send(cleared, <<"VoiceAssistantRequest">>)
                 EXCEPT !.run.is_streaming_audio = TRUE,
                        !.run.pipeline_active = TRUE]
        ELSE [cleared EXCEPT !.run.pipeline_active = FALSE]

\* _tts_finished that leaves _continue_conversation set.
tts_finished_keeps_continue(w) ==
    LET told == send([w EXCEPT !.stop = FALSE], <<"VoiceAssistantAnnounceFinished">>)
    IN  IF w.run.continue_conversation
        THEN [send(told, <<"VoiceAssistantRequest">>)
                 EXCEPT !.run.is_streaming_audio = TRUE,
                        !.run.pipeline_active = TRUE]
        ELSE unduck([told EXCEPT !.run.pipeline_active = FALSE])

\* _tts_finished
tts_finished(w) ==
    LET told == send([w EXCEPT !.stop = FALSE], <<"VoiceAssistantAnnounceFinished">>)
        continue_conversation == w.run.continue_conversation
        cleared == [told EXCEPT !.run.continue_conversation = FALSE]
    IN  IF continue_conversation
        THEN [send(cleared, <<"VoiceAssistantRequest">>)
                 EXCEPT !.run.is_streaming_audio = TRUE,
                        !.run.pipeline_active = TRUE]
        ELSE unduck([cleared EXCEPT !.run.pipeline_active = FALSE])

\* play_tts
play_tts(w, s) ==
    IF ~w.run.tts_url \/ w.run.tts_played
    THEN w
    ELSE [w EXCEPT !.run.tts_played = TRUE,
                   !.stop = TRUE,
                   !.tts = player_play(@, "tts", "tts_finished", s)]

\* _play_timer_finished
play_timer_finished(w, s) ==
    IF ~w.run.timer_finished
    THEN unduck(w)
    ELSE [w EXCEPT !.tts = player_play(@, "timer", "timer_replay", s)]

VoiceEvents ==
    {"RUN_START", "INTENT_START", "STT_VAD_END", "STT_END", "INTENT_PROGRESS",
     "INTENT_END", "TTS_END", "RUN_END"}

\* handle_voice_event.  flag is the one datum the event carries: a url
\* (RUN_START, TTS_END), tts_start_streaming = "1" (INTENT_PROGRESS),
\* continue_conversation = "1" (INTENT_END).  For INTENT_START it is
\* ServerState.thinking_sound_enabled, which the hub sets as it likes with
\* the thinking sound switch and which nothing else reads.
handle_voice_event(w, s, event_type, flag) ==
    IF event_type = "RUN_START"
    THEN [w EXCEPT !.run.tts_url = flag,
                   !.run.tts_played = FALSE,
                   !.run.continue_conversation = FALSE,
                   !.run.pipeline_active = TRUE]
    ELSE IF event_type = "INTENT_START" /\ flag
    THEN [duck([w EXCEPT !.stop = TRUE])
             EXCEPT !.tts = player_play(@, "processing", "none", s)]
    ELSE IF event_type \in {"STT_VAD_END", "STT_END"}
    THEN [w EXCEPT !.run.is_streaming_audio = FALSE]
    ELSE IF event_type = "INTENT_PROGRESS"
    THEN IF flag THEN play_tts(w, s) ELSE w
    ELSE IF event_type = "INTENT_END"
    THEN IF flag THEN [w EXCEPT !.run.continue_conversation = TRUE] ELSE w
    ELSE IF event_type = "TTS_END"
    THEN play_tts([w EXCEPT !.run.tts_url = flag], s)
    ELSE IF event_type = "RUN_END"
    THEN LET quiet == [w EXCEPT !.run.is_streaming_audio = FALSE]
             ended == IF ~quiet.run.tts_played THEN tts_finished(quiet) ELSE quiet
         IN  [ended EXCEPT !.run.tts_played = FALSE]
    ELSE w

\* handle_timer_event, for VOICE_ASSISTANT_TIMER_FINISHED
handle_timer_event(w, s) ==
    IF ~w.run.timer_finished
    THEN play_timer_finished(
             duck([w EXCEPT !.stop = TRUE, !.run.timer_finished = TRUE]), s)
    ELSE w

\* MediaPlayerEntity.play with announcement = True: music that is playing is
\* paused and resumed by the done callback.
media_player_announce(w, s) ==
    LET started ==
            IF w.music.is_playing
            THEN [w EXCEPT !.music.is_playing = FALSE,
                           !.tts = player_play(@, "announce", "announce_resume", s)]
            ELSE [w EXCEPT !.tts = player_play(@, "announce", "announce_idle", s)]
    IN  send(started, <<"MediaPlayerStateResponse">>)

\* handle_message, for VoiceAssistantAnnounceRequest
handle_announce(w, s, start_conversation) ==
    media_player_announce(
        duck([w EXCEPT !.stop = TRUE,
                       !.run.continue_conversation = start_conversation]), s)

\* The done callbacks given to the TTS player.
run_done_callback(w, s, done_callback) ==
    IF done_callback = "tts_finished"
    THEN tts_finished(w)
    ELSE IF done_callback = "announce_resume"
    THEN tts_finished([w EXCEPT !.music.is_playing = TRUE])
    ELSE IF done_callback = "announce_idle"
    THEN tts_finished(send(w, <<"MediaPlayerStateResponse">>))
    ELSE play_timer_finished(w, s)

\* _set_muted, but for ServerState.muted itself
set_muted(w, new_state) ==
    IF new_state
    THEN [w EXCEPT !.run.is_streaming_audio = FALSE,
                   !.tts = player_stop(@),
                   !.stop = FALSE]
    ELSE w

\* wakeup, when the timer is ringing, without the stop of the player.
wakeup_stop_timer_keeps_chime(w) ==
    [w EXCEPT !.run.timer_finished = FALSE]

\* wakeup, when the timer is ringing
wakeup_stop_timer(w) ==
    [w EXCEPT !.run.timer_finished = FALSE, !.tts = player_stop(@)]

\* wakeup, after the pipeline start request has been sent
wakeup_start(w) ==
    [duck(w) EXCEPT !.run.is_streaming_audio = TRUE,
                    !.run.pipeline_active = TRUE,
                    !.tts = player_play(@, "wake", "none", NoSession)]

\* stop, up to the test of _timer_finished
stop_begin(w) ==
    [w EXCEPT !.stop = FALSE,
              !.tts = player_stop(@),
              !.run.continue_conversation = FALSE,
              !.run.pipeline_active = FALSE]

\* stop, from the test of _timer_finished
stop_finish(w) ==
    IF w.run.timer_finished
    THEN [w EXCEPT !.run.timer_finished = FALSE]
    ELSE tts_finished(w)

\* connection_lost with the reset of _timer_finished left out.
session_connection_lost_keeps_timer(w) ==
    [w EXCEPT !.writelines = FALSE,
              !.run = [FreshRun EXCEPT !.timer_finished = w.run.timer_finished],
              !.music.is_playing = FALSE,
              !.tts = player_stop(@),
              !.stop = FALSE]

\* VoiceSatelliteProtocol.connection_lost, but for ServerState.connected and
\* ServerState.satellite
session_connection_lost(w) ==
    [w EXCEPT !.writelines = FALSE,
              !.run = FreshRun,
              !.music.is_playing = FALSE,
              !.tts = player_stop(@),
              !.stop = FALSE]

\* A handler's result becomes the state.
Commit(s, w) ==
    /\ w.tts.pending <= MaxPending
    /\ sess' = [sess EXCEPT ![s] = w.run]
    /\ stop_active' = w.stop
    /\ tts' = w.tts
    /\ music' = w.music
    /\ out' = w.out
    /\ wrote' = w.wrote

SatelliteInit ==
    /\ status = [s \in Sessions |-> "unborn"]
    /\ sess = [s \in Sessions |-> FreshRun]
    /\ satellite = NoSession
    /\ connected = FALSE
    /\ muted = FALSE
    /\ entities = <<>>
    /\ stop_active = FALSE
    /\ tts = IdlePlayer
    /\ music = IdleMusic
    /\ audio = [pc |-> "idle", s |-> NoSession]
    /\ out = <<>>
    /\ wrote = NotWritten

\* The satellite with no connection ever accepted.
SatelliteIdle == SatelliteInit

\* The server accepts a connection: VoiceSatelliteProtocol.__init__, then
\* connection_made.  __init__ takes the satellite slot and clears connected
\* first; when the entities exist already it raises (line 87 reads a loop
\* variable that was never bound) and the session gets no fields and no
\* transport.
Accept(s) ==
    /\ status[s] = "unborn"
    /\ \A r \in Sessions : r < s => status[r] # "unborn"
    /\ satellite' = s
    /\ connected' = FALSE
    /\ IF entities = <<>>
       THEN /\ entities' = <<"media_player", "mute", "thinking_sound">>
            /\ sess' = [sess EXCEPT ![s] = FreshRun]
            /\ status' = [status EXCEPT ![s] = "made"]
       ELSE /\ status' = [status EXCEPT ![s] = "failed"]
            /\ UNCHANGED <<entities, sess>>
    /\ out' = <<>>
    /\ wrote' = NotWritten
    /\ UNCHANGED <<muted, stop_active, tts, music, audio>>
    /\ UNCHANGED <<fvars, evars, pvars, xvars>>

\* process_packet, for ConnectRequest.  The hub sends it once, after
\* HelloRequest and before any other message.
ConnectRequest(s) ==
    /\ status[s] = "made"
    /\ status' = [status EXCEPT ![s] = "live"]
    /\ connected' = TRUE
    /\ out' = <<"ConnectResponse", "MediaPlayerStateResponse",
                "SwitchStateResponse", "SwitchStateResponse">>
    /\ wrote' = Inline
    /\ UNCHANGED <<sess, satellite, muted, entities,
                   stop_active, tts, music, audio>>
    /\ UNCHANGED <<fvars, evars, pvars, xvars>>

\* process_packet, for DisconnectRequest: answered, and the transport closed.
DisconnectRequest(s) ==
    /\ status[s] = "live"
    /\ status' = [status EXCEPT ![s] = "closing"]
    /\ out' = <<"DisconnectResponse">>
    /\ wrote' = Inline
    /\ UNCHANGED <<sess, satellite, connected, muted, entities,
                   stop_active, tts, music, audio>>
    /\ UNCHANGED <<fvars, evars, pvars, xvars>>

\* The values of the datum handle_voice_event reads from an event; the
\* events it reads none from carry FALSE.
Flags(event_type) ==
    IF event_type \in {"STT_VAD_END", "STT_END", "RUN_END"}
    THEN {FALSE}
    ELSE BOOLEAN

\* The hub sends a pipeline event.
VoiceEvent(s) ==
    /\ status[s] = "live"
    /\ \E event_type \in VoiceEvents : \E flag \in Flags(event_type) :
          Commit(s, handle_voice_event(World(s), s, event_type, flag))
    /\ UNCHANGED <<status, satellite, connected, muted, entities, audio>>
    /\ UNCHANGED <<fvars, evars, pvars, xvars>>

\* The hub reports a finished timer.
TimerEvent(s) ==
    /\ status[s] = "live"
    /\ Commit(s, handle_timer_event(World(s), s))
    /\ UNCHANGED <<status, satellite, connected, muted, entities, audio>>
    /\ UNCHANGED <<fvars, evars, pvars, xvars>>

\* The hub asks for an announcement.
AnnounceRequest(s) ==
    /\ status[s] = "live"
    /\ \E start_conversation \in BOOLEAN :
          Commit(s, handle_announce(World(s), s, start_conversation))
    /\ UNCHANGED <<status, satellite, connected, muted, entities, audio>>
    /\ UNCHANGED <<fvars, evars, pvars, xvars>>

\* The hub switches the mute switch.
MuteCommand(s) ==
    /\ status[s] = "live"
    /\ \E new_state \in BOOLEAN :
          /\ muted' = new_state
          /\ Commit(s, send(set_muted(World(s), new_state), <<"SwitchStateResponse">>))
    /\ UNCHANGED <<status, satellite, connected, entities, audio>>
    /\ UNCHANGED <<fvars, evars, pvars, xvars>>

\* The hub commands the media player: a media URL, PLAY, PAUSE or STOP.
MediaPlayerCommand(s) ==
    /\ status[s] = "live"
    /\ \E playing \in BOOLEAN : music' = [music EXCEPT !.is_playing = playing]
    /\ out' = <<"MediaPlayerStateResponse">>
    /\ wrote' = Inline
    /\ UNCHANGED <<status, sess, satellite, connected, muted,
                   entities, stop_active, tts, audio>>
    /\ UNCHANGED <<fvars, evars, pvars, xvars>>

\* The transport of session s is gone.
ConnectionLost(s) ==
    /\ status[s] \in {"made", "live", "closing"}
    /\ Commit(s, session_connection_lost(World(s)))
    /\ status' = [status EXCEPT ![s] = "lost"]
    /\ connected' = FALSE
    /\ satellite' = IF satellite = s THEN NoSession ELSE satellite
    /\ UNCHANGED <<muted, entities, audio>>
    /\ UNCHANGED <<fvars, evars, pvars, xvars>>

\* The session the audio thread calls into is the one in the satellite slot;
\* a session whose __init__ raised has no fields, and handle_audio on it
\* raises before any detection is looked at.
AudioTarget(s) ==
    /\ audio.pc = "idle"
    /\ satellite = s
    /\ status[s] \in {"made", "live", "closing"}

\* AudioWakeup without the test of _pipeline_active.
AudioWakeupWhileActive(s) ==
    /\ AudioTarget(s)
    /\ ~muted
    /\ IF sess[s].timer_finished
       THEN /\ Commit(s, wakeup_stop_timer(OnThread(World(s), "audio")))
            /\ UNCHANGED audio
       ELSE /\ out' = <<>>
            /\ wrote' = NotWritten
            /\ audio' = [pc |-> IF World(s).writelines THEN "wakeup_send" ELSE "wakeup",
                         s |-> s]
            /\ UNCHANGED <<sess, stop_active, tts, music>>
    /\ UNCHANGED <<status, satellite, connected, muted, entities>>
    /\ UNCHANGED <<fvars, evars, pvars, xvars>>

\* process_audio: a wake model fires, the satellite is not muted; wakeup
\* runs up to the first test of send_messages (is there a write function?).
\* Without one, send_messages returns at once and wakeup goes on.
AudioWakeup(s) ==
    /\ AudioTarget(s)
    /\ ~muted
    /\ IF sess[s].timer_finished
       THEN /\ Commit(s, wakeup_stop_timer(OnThread(World(s), "audio")))
            /\ UNCHANGED audio
       ELSE IF sess[s].pipeline_active
       THEN /\ out' = <<>>
            /\ wrote' = NotWritten
            /\ UNCHANGED <<sess, stop_active, tts, music, audio>>
       ELSE /\ out' = <<>>
            /\ wrote' = NotWritten
            /\ audio' = [pc |-> IF World(s).writelines THEN "wakeup_send" ELSE "wakeup",
                         s |-> s]
            /\ UNCHANGED <<sess, stop_active, tts, music>>
    /\ UNCHANGED <<status, satellite, connected, muted, entities>>
    /\ UNCHANGED <<fvars, evars, pvars, xvars>>

\* What the rest of send_messages can come to when the event loop has taken
\* the write function and the loop away since the first test: the call of
\* None or of a method of None raises on the audio thread ("raised"), or
\* call_soon_threadsafe is given None or the write function of a closed
\* transport and nothing is written ("dropped").
LateSendOutcomes == {"raised", "dropped"}

\* The audio thread's send_messages raised.
Raised == [thread |-> "audio", how |-> "raised"]

\* The rest of send_messages in wakeup (the packets are built, the loop and
\* the write function are read again), and the rest of wakeup after it.  An
\* exception ends wakeup; process_audio catches and logs it.
AudioWakeupSend ==
    /\ audio.pc = "wakeup_send"
    /\ LET w == OnThread(World(audio.s), "audio")
       IN  IF w.writelines
           THEN Commit(audio.s, wakeup_start(send(w, <<"VoiceAssistantRequest">>)))
           ELSE \E outcome \in LateSendOutcomes :
                    IF outcome = "raised"
                    THEN /\ out' = <<>>
                         /\ wrote' = Raised
                         /\ UNCHANGED <<sess, stop_active, tts, music>>
                    ELSE Commit(audio.s, wakeup_start(w))
    /\ audio' = [pc |-> "idle", s |-> NoSession]
    /\ UNCHANGED <<status, satellite, connected, muted, entities>>
    /\ UNCHANGED <<fvars, evars, pvars, xvars>>

\* wakeup goes on when there was nothing to send: duck, the two flags, the
\* wake sound.
AudioWakeupFinish ==
    /\ audio.pc = "wakeup"
    /\ Commit(audio.s, wakeup_start(OnThread(World(audio.s), "audio")))
    /\ audio' = [pc |-> "idle", s |-> NoSession]
    /\ UNCHANGED <<status, satellite, connected, muted, entities>>
    /\ UNCHANGED <<fvars, evars, pvars, xvars>>

\* process_audio: the stop model fires while it is active and the satellite
\* is not muted; stop runs up to its test of _timer_finished.
AudioStop(s) ==
    /\ AudioTarget(s)
    /\ stop_active
    /\ ~muted
    /\ Commit(s, stop_begin(OnThread(World(s), "audio")))
    /\ audio' = [pc |-> "stop", s |-> s]
    /\ UNCHANGED <<status, satellite, connected, muted, entities>>
    /\ UNCHANGED <<fvars, evars, pvars, xvars>>

\* stop goes on: the timer is cleared, or the run finished.
AudioStopFinish ==
    /\ audio.pc = "stop"
    /\ Commit(audio.s, stop_finish(OnThread(World(audio.s), "audio")))
    /\ audio' = [pc |-> "idle", s |-> NoSession]
    /\ UNCHANGED <<status, satellite, connected, muted, entities>>
    /\ UNCHANGED <<fvars, evars, pvars, xvars>>

\* What the TTS player plays comes to its end.
PlaybackEnds ==
    /\ tts.playing # "none"
    /\ tts.pending < MaxPending
    /\ tts' = [tts EXCEPT !.playing = "none", !.pending = @ + 1]
    /\ out' = <<>>
    /\ wrote' = NotWritten
    /\ UNCHANGED <<status, sess, satellite, connected, muted,
                   entities, stop_active, music, audio>>
    /\ UNCHANGED <<fvars, evars, pvars, xvars>>

\* The player's event thread handles one end of playback (_on_end_file, or
\* the end of _play_subprocess_playlist): it takes the done callback that is
\* registered now, if there is one, and calls it.
OnEndFile ==
    /\ tts.pending > 0
    /\ LET handled == [tts EXCEPT !.pending = @ - 1]
       IN  IF tts.done_callback = "none"
           THEN /\ tts' = handled
                /\ out' = <<>>
                /\ wrote' = NotWritten
                /\ UNCHANGED <<sess, stop_active, music>>
           ELSE LET s == tts.owner
                    taken == [handled EXCEPT !.done_callback = "none",
                                             !.owner = NoSession]
                IN  Commit(s, run_done_callback(
                                  [OnThread(World(s), "player") EXCEPT !.tts = taken],
                                  s, tts.done_callback))
    /\ UNCHANGED <<status, satellite, connected, muted, entities, audio>>
    /\ UNCHANGED <<fvars, evars, pvars, xvars>>

\* The music player's file comes to its end.
MusicEnds ==
    /\ music.is_playing
    /\ music' = [music EXCEPT !.is_playing = FALSE]
    /\ out' = <<>>
    /\ wrote' = NotWritten
    /\ UNCHANGED <<status, sess, satellite, connected, muted,
                   entities, stop_active, tts, audio>>
    /\ UNCHANGED <<fvars, evars, pvars, xvars>>

\* The steps of the network context: one protocol message, or one
\* connection event, handled on the event loop.
NetworkStep ==
    \E s \in Sessions :
        \/ Accept(s)
        \/ ConnectRequest(s)
        \/ DisconnectRequest(s)
        \/ VoiceEvent(s)
        \/ TimerEvent(s)
        \/ AnnounceRequest(s)
        \/ MuteCommand(s)
        \/ MediaPlayerCommand(s)
        \/ ConnectionLost(s)

\* The steps of the process_audio thread.
AudioStep ==
    \/ \E s \in Sessions : AudioWakeup(s) \/ AudioStop(s)
    \/ AudioWakeupSend
    \/ AudioWakeupFinish
    \/ AudioStopFinish

\* The steps of the players' threads.
PlayerStep ==
    \/ PlaybackEnds
    \/ OnEndFile
    \/ MusicEnds

Next ==
    \/ NetworkStep
    \/ AudioStep
    \/ PlayerStep

\* ------------------------------------------------------------------------
\* Engine: process_audio of __main__.py and the wake word configuration
\* (main, VoiceAssistantSetConfiguration of satellite.py)
\* ------------------------------------------------------------------------

\* The clock stops at MaxTime seconds.
MaxTime == 4

\* The longest id list of a VoiceAssistantSetConfiguration.
MaxIds == 3

\* --refractory-seconds, by default.
refractory_seconds == 2

\* max_active_wake_words of VoiceAssistantConfigurationResponse.
max_active_wake_words == 2

\* ServerState.available_wake_words: the ids that have a config file.
available_wake_words == {"okay_nabu", "hey_jarvis", "alexa"}

\* --wake-model, by default.
wake_model == "okay_nabu"

\* The ids a hub or a preferences file may name.
WakeWordIds == available_wake_words \cup {"unknown"}

\* last_active = None
Never == -1

\* The elements of a list.
Range(list) == {list[k] : k \in 1..Len(list)}

\* The lists of at most n ids.
RECURSIVE IdLists(_)
IdLists(n) ==
    IF n = 0
    THEN {<<>>}
    ELSE LET shorter == IdLists(n - 1)
         IN  shorter \cup {Append(ids, id) : ids \in {x \in shorter : Len(x) = n - 1},
                                             id \in WakeWordIds}

\* The id lists a hub sends: no id twice.
ActiveWakeWordLists ==
    {ids \in IdLists(MaxIds) : \A j, k \in 1..Len(ids) : ids[j] = ids[k] => j = k}

\* main: the models of the preferred ids that are recognized, in order; the
\* default model when there is none.
RECURSIVE load_preferred(_, _)
load_preferred(active_wake_words, wake_models) ==
    IF active_wake_words = <<>>
    THEN wake_models
    ELSE LET wake_word_id == Head(active_wake_words)
         IN  IF wake_word_id \notin available_wake_words
                \/ wake_word_id \in Range(wake_models)
             THEN load_preferred(Tail(active_wake_words), wake_models)
             ELSE load_preferred(Tail(active_wake_words),
                                 Append(wake_models, wake_word_id))

main_wake_models(active_wake_words) ==
    LET wake_models == load_preferred(active_wake_words, <<>>)
    IN  IF wake_models = <<>> THEN <<wake_model>> ELSE wake_models

\* The preferences files the engine starts from.
StartupPreferences == {<<>>, <<"unknown">>, <<"hey_jarvis", "okay_nabu">>}

\* The locals of process_audio before the loop.  wake_words is the list of
\* models it evaluates (their order is that of ServerState.wake_words); i,
\* size and acc are the state of the list comprehension and of the loop over
\* the models.
EngineStart ==
    [pc |-> "get", wake_words |-> {}, i |-> 0, size |-> 0, acc |-> {},
     last_active |-> Never]

\* No VoiceAssistantSetConfiguration is being handled.  want is the set of
\* available ids the last one named (at the start, the models main loaded);
\* settled tells that a chunk was dequeued since it was handled.
NoConfiguration ==
    [pc |-> "idle", active |-> {}, i |-> 0, want |-> {}, settled |-> FALSE]

\* What a step of process_audio did: whether the detector it evaluated
\* fired, the session method it called, whether an exception
\* reached the except clause, and what became of the chunk ("open": still
\* being processed; "fed": done, the stop model was fed its features;
\* "unfed": done without).
Did(fired, call, raised, chunk) ==
    [fired |-> fired, call |-> call, raised |-> raised, chunk |-> chunk]

Nothing == Did(FALSE, "none", FALSE, "none")

\* The models of a set, in the order of ServerState.wake_words.
InOrder(models) == SelectSeq(wake_words, LAMBDA id : id \in models)

\* The engine before its first chunk, with the models main loaded.
EngineInit ==
    /\ \E active_wake_words \in StartupPreferences :
          /\ wake_words = main_wake_models(active_wake_words)
          /\ is_active = Range(main_wake_models(active_wake_words))
    /\ wake_words_changed = FALSE
    /\ eng = EngineStart
    /\ cfg = [NoConfiguration EXCEPT !.want = is_active]
    /\ now = 0
    /\ did = Nothing
    /\ forwarded = Never

\* The engine with the default model, before its first chunk.
EngineIdle ==
    /\ wake_words = <<wake_model>>
    /\ is_active = {wake_model}
    /\ wake_words_changed = FALSE
    /\ eng = EngineStart
    /\ cfg = [NoConfiguration EXCEPT !.want = is_active]
    /\ now = 0
    /\ did = Nothing
    /\ forwarded = Never

\* The variables no step of process_audio writes.
EngineFrame ==
    /\ UNCHANGED <<status, satellite, connected, entities, tts, music, audio>>
    /\ UNCHANGED <<wake_words, is_active, now>>
    /\ UNCHANGED <<fvars, pvars, xvars>>

\* audio_queue.get(): the sentinel ends the loop; a chunk dequeued while no
\* session is registered is dropped; otherwise the test of line 273 decides
\* whether the list of models is rebuilt.
Dequeued(audio_chunk) ==
    IF audio_chunk = "None"
    THEN /\ eng' = [eng EXCEPT !.pc = "done"]
         /\ did' = Did(FALSE, "none", FALSE, "none")
         /\ UNCHANGED cfg
    ELSE IF satellite = NoSession
    THEN /\ did' = Did(FALSE, "none", FALSE, "unfed")
         /\ UNCHANGED <<eng, cfg>>
    ELSE /\ eng' = [eng EXCEPT !.pc =
                      IF eng.wake_words = {}
                         \/ (wake_words_changed /\ wake_words # <<>>)
                      THEN "refresh_clear" ELSE "handle_audio"]
         /\ did' = Did(FALSE, "none", FALSE, "open")
         /\ cfg' = [cfg EXCEPT !.settled = (cfg.pc = "idle")]

\* The chunk the engine gets is any chunk, or the sentinel.
Dequeue ==
    /\ eng.pc = "get"
    /\ \E audio_chunk \in {"chunk", "None"} : Dequeued(audio_chunk)
    /\ out' = <<>>
    /\ wrote' = NotWritten
    /\ UNCHANGED <<sess, muted, stop_active, wake_words_changed, forwarded>>
    /\ EngineFrame

\* Line 275, and the start of the iteration over state.wake_words.values().
RefreshClear ==
    /\ eng.pc = "refresh_clear"
    /\ wake_words_changed' = FALSE
    /\ eng' = [eng EXCEPT !.pc = "refresh", !.i = 1, !.size = Len(wake_words),
                          !.acc = {}]
    /\ did' = Did(FALSE, "none", FALSE, "open")
    /\ out' = <<>>
    /\ wrote' = NotWritten
    /\ UNCHANGED <<sess, muted, stop_active, cfg, forwarded>>
    /\ EngineFrame

\* One step of the list comprehension of line 276: the dictionary iterator
\* raises RuntimeError when the dictionary has changed size since the
\* iteration began, and the exception leaves the while loop (the
\* comprehension is outside the inner try); otherwise the next model's
\* is_active is read, or the list is complete.
RefreshNext ==
    /\ eng.pc = "refresh"
    /\ IF Len(wake_words) # eng.size
       THEN /\ eng' = [eng EXCEPT !.pc = "dead"]
            /\ did' = Did(FALSE, "none", TRUE, "unfed")
       ELSE IF eng.i > eng.size
       THEN /\ eng' = [eng EXCEPT !.pc = "handle_audio", !.wake_words = eng.acc,
                                  !.i = 0, !.size = 0, !.acc = {}]
            /\ did' = Did(FALSE, "none", FALSE, "open")
       ELSE /\ eng' = [eng EXCEPT !.i = @ + 1,
                                  !.acc = IF wake_words[eng.i] \in is_active
                                          THEN @ \cup {wake_words[eng.i]}
                                          ELSE @]
            /\ did' = Did(FALSE, "none", FALSE, "open")
    /\ out' = <<>>
    /\ wrote' = NotWritten
    /\ UNCHANGED <<sess, muted, stop_active, wake_words_changed, cfg, forwarded>>
    /\ EngineFrame

\* handle_audio that does not look at the mute switch.
handle_audio_unmuted(w) ==
    IF ~w.run.is_streaming_audio
    THEN w
    ELSE send(w, <<"VoiceAssistantAudio">>)

\* handle_audio of the session: the chunk is sent when the session streams
\* and the satellite is not muted.
handle_audio(w) ==
    IF ~w.run.is_streaming_audio \/ muted
    THEN w
    ELSE send(w, <<"VoiceAssistantAudio">>)

\* Lines 296-305: handle_audio on the registered session, then the feature
\* extraction.  A session whose __init__ raised has no _is_streaming_audio
\* and the call raises; fault is an exception out of the feature extraction.
\* Both reach the except clause of line 336, and the chunk is done.
HandleAudio ==
    /\ eng.pc = "handle_audio"
    /\ IF satellite = NoSession \/ status[satellite] = "failed"
       THEN /\ eng' = [eng EXCEPT !.pc = "get"]
            /\ did' = Did(FALSE, "handle_audio", TRUE, "unfed")
            /\ out' = <<>>
            /\ wrote' = NotWritten
       ELSE LET w == handle_audio(OnThread(World(satellite), "audio"))
            IN  /\ out' = w.out
                /\ wrote' = w.wrote
                /\ \E fault \in BOOLEAN :
                      IF fault
                      THEN /\ eng' = [eng EXCEPT !.pc = "get"]
                           /\ did' = Did(FALSE, "handle_audio", TRUE, "unfed")
                      ELSE /\ eng' = [eng EXCEPT
                                !.pc = IF eng.wake_words = {} THEN "stop" ELSE "wake",
                                !.i = IF eng.wake_words = {} THEN 0 ELSE 1]
                           /\ did' = Did(FALSE, "handle_audio", FALSE, "open")
    /\ UNCHANGED <<sess, muted, stop_active, wake_words_changed, cfg, forwarded>>
    /\ EngineFrame

\* A refractory test that is always passed.
refractory_over_always(last_active) == TRUE

\* The refractory test of lines 322-324.
refractory_over(last_active) ==
    last_active = Never \/ now - last_active > refractory_seconds

\* Lines 307-326 for the next model of the list: its inference on the
\* chunk's features fires or not; a detection is forwarded to wakeup() when
\* the satellite is not muted and the refractory interval is over.  With no
\* session registered the call raises before wakeup() is entered; on a
\* session whose __init__ raised, wakeup() raises; last_active is set only
\* when wakeup() returns.  wakeup() may start a pipeline, and the session
\* streams then.
WakeNext ==
    /\ eng.pc = "wake"
    /\ LET last == eng.i = Len(InOrder(eng.wake_words))
           onward == [eng EXCEPT !.pc = IF last THEN "stop" ELSE "wake",
                                 !.i = IF last THEN 0 ELSE @ + 1]
           caught == [eng EXCEPT !.pc = "get", !.i = 0]
       IN  \E activated \in BOOLEAN :
              IF activated /\ ~muted /\ refractory_over(eng.last_active)
              THEN IF satellite = NoSession
                   THEN /\ eng' = caught
                        /\ did' = Did(TRUE, "none", TRUE, "unfed")
                        /\ UNCHANGED <<sess, forwarded>>
                   ELSE IF status[satellite] = "failed"
                   THEN /\ eng' = caught
                        /\ did' = Did(TRUE, "wakeup", TRUE, "unfed")
                        /\ forwarded' = now
                        /\ UNCHANGED sess
                   ELSE /\ eng' = [onward EXCEPT !.last_active = now]
                        /\ did' = Did(TRUE, "wakeup", FALSE, "open")
                        /\ forwarded' = now
                        /\ \E started \in BOOLEAN :
                              sess' = [sess EXCEPT ![satellite].is_streaming_audio =
                                                        @ \/ started]
              ELSE /\ eng' = onward
                   /\ did' = Did(activated, "none", FALSE, "open")
                   /\ UNCHANGED <<sess, forwarded>>
    /\ out' = <<>>
    /\ wrote' = NotWritten
    /\ UNCHANGED <<muted, stop_active, wake_words_changed, cfg>>
    /\ EngineFrame

\* A gate that also waits for the refractory interval of the wake words.
stop_gate_refractory(stopped) ==
    stopped /\ stop_active /\ ~muted /\ refractory_over(eng.last_active)

\* The gate of line 334.
stop_gate(stopped) == stopped /\ stop_active /\ ~muted

\* Lines 329-335: the stop model is fed the chunk's features; its detection
\* is forwarded to stop() when the model is active and the satellite is not
\* muted.  stop() clears stop_word.is_active first.
StopTest ==
    /\ eng.pc = "stop"
    /\ \E stopped \in BOOLEAN :
          IF stop_gate(stopped)
          THEN IF satellite = NoSession
               THEN /\ did' = Did(TRUE, "none", TRUE, "fed")
                    /\ UNCHANGED stop_active
               ELSE /\ did' = Did(TRUE, "stop", status[satellite] = "failed", "fed")
                    /\ stop_active' = FALSE
          ELSE /\ did' = Did(stopped, "none", FALSE, "fed")
               /\ UNCHANGED stop_active
    /\ eng' = [eng EXCEPT !.pc = "get"]
    /\ out' = <<>>
    /\ wrote' = NotWritten
    /\ UNCHANGED <<sess, muted, wake_words_changed, cfg, forwarded>>
    /\ EngineFrame

\* time.monotonic() advances.
Tick ==
    /\ now < MaxTime
    /\ now' = now + 1
    /\ UNCHANGED <<wake_words, is_active, wake_words_changed, eng, cfg, did,
                   forwarded>>
    /\ UNCHANGED <<svars, fvars, pvars, xvars>>

\* The events of the hub, handled on the event loop, change what
\* process_audio reads of the session: whether it streams (_tts_finished
\* with a continued conversation sets it, also while muted) and whether the
\* stop word is active (play_tts, play of an announcement, a finished timer).
SessionActivity(s) ==
    /\ status[s] = "live"
    /\ \E streaming \in BOOLEAN, active \in BOOLEAN :
          /\ sess' = [sess EXCEPT ![s].is_streaming_audio = streaming]
          /\ stop_active' = active
    /\ out' = <<>>
    /\ wrote' = NotWritten
    /\ UNCHANGED <<status, satellite, connected, muted, entities, tts, music, audio>>
    /\ UNCHANGED <<fvars, evars, pvars, xvars>>

\* The first loop of the VoiceAssistantSetConfiguration branch: an id that
\* is loaded is kept; an id that is not available is skipped; the first id
\* that has to be loaded is loaded, and the loop is left.
RECURSIVE load_requested(_, _, _)
load_requested(ids, loaded, active_wake_words) ==
    IF ids = <<>>
    THEN [wake_words |-> loaded, active |-> active_wake_words]
    ELSE LET wake_word_id == Head(ids)
         IN  IF wake_word_id \in Range(loaded)
             THEN load_requested(Tail(ids), loaded, active_wake_words \cup {wake_word_id})
             ELSE IF wake_word_id \notin available_wake_words
             THEN load_requested(Tail(ids), loaded, active_wake_words)
             ELSE [wake_words |-> Append(loaded, wake_word_id),
                   active |-> active_wake_words \cup {wake_word_id}]

\* The variables the handler of VoiceAssistantSetConfiguration leaves alone.
ConfigFrame ==
    /\ out' = <<>>
    /\ wrote' = NotWritten
    /\ UNCHANGED <<status, sess, satellite, connected, muted, entities,
                   stop_active, tts, music, audio>>
    /\ UNCHANGED <<eng, now, did, forwarded>>
    /\ UNCHANGED <<fvars, pvars, xvars>>

\* The hub sends VoiceAssistantSetConfiguration with the id list ids: lines
\* 329-348.
SetConfiguration(s) ==
    /\ status[s] = "live"
    /\ cfg.pc = "idle"
    /\ \E ids \in ActiveWakeWordLists :
          LET loaded == load_requested(ids, wake_words, {})
          IN  /\ wake_words' = loaded.wake_words
              /\ cfg' = [pc |-> "flags", active |-> loaded.active, i |-> 1,
                         want |-> Range(ids) \cap available_wake_words,
                         settled |-> FALSE]
    /\ UNCHANGED <<is_active, wake_words_changed>>
    /\ ConfigFrame

\* Lines 350-351: the is_active of the next loaded model is written.
SetActive ==
    /\ cfg.pc = "flags"
    /\ IF cfg.i > Len(wake_words)
       THEN /\ cfg' = [cfg EXCEPT !.pc = "changed", !.i = 0]
            /\ UNCHANGED is_active
       ELSE /\ is_active' = IF wake_words[cfg.i] \in cfg.active
                            THEN is_active \cup {wake_words[cfg.i]}
                            ELSE is_active \ {wake_words[cfg.i]}
            /\ cfg' = [cfg EXCEPT !.i = @ + 1]
    /\ UNCHANGED <<wake_words, wake_words_changed>>
    /\ ConfigFrame

\* Line 357.
SetChanged ==
    /\ cfg.pc = "changed"
    /\ wake_words_changed' = TRUE
    /\ cfg' = [cfg EXCEPT !.pc = "idle"]
    /\ UNCHANGED <<wake_words, is_active>>
    /\ ConfigFrame

\* A session that has answered the hub's ConnectRequest.
SatelliteLive ==
    /\ status = [s \in Sessions |-> IF s = 1 THEN "live" ELSE "unborn"]
    /\ sess = [s \in Sessions |-> FreshRun]
    /\ satellite = 1
    /\ connected = TRUE
    /\ muted = FALSE
    /\ entities = <<"media_player", "mute", "thinking_sound">>
    /\ stop_active = FALSE
    /\ tts = IdlePlayer
    /\ music = IdleMusic
    /\ audio = [pc |-> "idle", s |-> NoSession]
    /\ out = <<>>
    /\ wrote = NotWritten

EngineStep ==
    \/ Dequeue
    \/ RefreshClear
    \/ RefreshNext
    \/ HandleAudio
    \/ WakeNext
    \/ StopTest

EngineNext ==
    \/ EngineStep
    \/ Tick
    \/ \E s \in Sessions :
          \/ Accept(s)
          \/ ConnectRequest(s)
          \/ ConnectionLost(s)
          \/ MuteCommand(s)
          \/ SessionActivity(s)

ConfigNext ==
    \/ EngineStep
    \/ \E s \in Sessions : SetConfiguration(s)
    \/ SetActive
    \/ SetChanged

\* ------------------------------------------------------------------------
\* Player: MpvMediaPlayer of mpv_player.py
\* ------------------------------------------------------------------------

\* The play() calls made on the player.
MaxPlays == 2

\* The longest playlist given to play().
MaxItems == 2

\* The kinds of URL: a local file (played by the python-mpv instance when
\* there is one) and an http(s) URL (played by an mpv subprocess).
Urls == {"local", "network"}

\* The playlists given to play(); the empty one starts nothing.
RECURSIVE Playlists(_)
Playlists(n) ==
    IF n = 0
    THEN {<<>>}
    ELSE LET shorter == Playlists(n - 1)
         IN  shorter \cup {Append(list, url) : list \in {x \in shorter : Len(x) = n - 1},
                                              url \in Urls}

\* No play() call: nothing loaded, no subprocess, no callback.
NoPlay == 0

\* MpvMediaPlayer.__init__.  player tells whether the python-mpv instance
\* exists, binary whether the mpv binary is on the PATH; loaded is the play()
\* call whose file the python-mpv instance is playing; call is the play()
\* call in progress, between its stop() and the registration of its
\* callback.
MpvInit(player, binary) ==
    [player |-> player, binary |-> binary, is_playing |-> FALSE,
     playlist |-> <<>>, owner |-> NoPlay, done_callback |-> NoPlay,
     current_proc |-> NoPlay, loaded |-> NoPlay,
     call |-> [pc |-> "idle", next_url |-> "none", done_callback |-> FALSE]]

\* What is known of a play() call: whether it gave a done callback, whether
\* a playback was started for it, whether its playback could not be
\* performed, how often its callback was invoked, and whether it was invoked
\* on the end of another call's playback.
NewPlay(done_callback) ==
    [done_callback |-> done_callback, started |-> FALSE, failed |-> FALSE,
     invoked |-> 0, misfired |-> FALSE]

\* The player's fields, its pending end-file events, its worker threads and
\* the record of the calls, as one value.
Player == [mpv |-> mpv, endfile |-> endfile, workers |-> workers, plays |-> plays]

CommitPlayer(p) ==
    /\ mpv' = p.mpv
    /\ endfile' = p.endfile
    /\ workers' = p.workers
    /\ plays' = p.plays

\* The python-mpv instance stops what it plays, or replaces it: the end of
\* the file is reported by an end-file event.
unload(p) ==
    IF p.mpv.loaded = NoPlay
    THEN p
    ELSE [p EXCEPT !.endfile = Append(@, p.mpv.loaded), !.mpv.loaded = NoPlay]

\* proc.terminate() on the tracked subprocess: its worker goes on to its
\* finally clause.
terminate(p) ==
    IF p.mpv.current_proc = NoPlay
    THEN p
    ELSE [p EXCEPT !.workers = {IF wk.call = p.mpv.current_proc /\ wk.pc = "wait"
                                THEN [wk EXCEPT !.pc = "finally"] ELSE wk : wk \in @},
                   !.mpv.current_proc = NoPlay]

\* MpvMediaPlayer.stop.
mpv_stop(p) ==
    LET stopped == terminate(IF p.mpv.player THEN unload(p) ELSE p)
    IN  [stopped EXCEPT !.mpv.playlist = <<>>, !.mpv.is_playing = FALSE]

\* The registered done callback is taken and invoked, on the end of the
\* playback of call ended.
take_callback(p, ended) ==
    LET c == p.mpv.done_callback
    IN  IF c = NoPlay
        THEN p
        ELSE [p EXCEPT !.mpv.done_callback = NoPlay,
                       !.plays[c].invoked = @ + 1,
                       !.plays[c].misfired = @ \/ c # ended]

\* A thread is started on _play_subprocess_playlist with the playlist of
\* call c.
spawn(p, c) ==
    [p EXCEPT !.workers = @ \cup {[call |-> c, pc |-> "start"]},
              !.mpv.playlist = <<>>]

\* player.command("loadfile", url, "replace") for call c.
loadfile(p, c) ==
    [unload(p) EXCEPT !.mpv.loaded = c, !.plays[c].started = TRUE]

PlayerInit ==
    /\ \E player \in BOOLEAN, binary \in BOOLEAN : mpv = MpvInit(player, binary)
    /\ endfile = <<>>
    /\ workers = {}
    /\ plays = <<>>

\* The variables no step of the player writes.
PlayerFrame == UNCHANGED <<fvars, svars, evars, xvars>>

\* play(url, done_callback), lines 97-108: stop(), then the playlist is
\* set; an empty playlist ends the call.
Play ==
    /\ mpv.call.pc = "idle"
    /\ Len(plays) < MaxPlays
    /\ \E url \in Playlists(MaxItems), done_callback \in BOOLEAN :
          LET c == Len(plays) + 1
              p == mpv_stop(Player)
              q == [p EXCEPT !.plays = Append(@, NewPlay(done_callback))]
          IN  IF url = <<>>
              THEN CommitPlayer(q)
              ELSE CommitPlayer([q EXCEPT
                      !.mpv.playlist = Tail(url), !.mpv.owner = c,
                      !.mpv.call = [pc |-> "register", next_url |-> Head(url),
                                    done_callback |-> done_callback]])
    /\ PlayerFrame

\* play(), lines 111-128: the callback is registered (None replaces a
\* callback that is still registered); a local file is loaded into the
\* python-mpv instance, and when there is none, or the command raises, or
\* the URL is a network URL, a worker thread is started.
PlayRegister ==
    /\ mpv.call.pc = "register"
    /\ LET c == mpv.owner
           p == [Player EXCEPT
                    !.mpv.done_callback = IF mpv.call.done_callback THEN c ELSE NoPlay,
                    !.mpv.call = [pc |-> "idle", next_url |-> "none",
                                  done_callback |-> FALSE],
                    !.mpv.is_playing = TRUE]
       IN  IF mpv.call.next_url = "local" /\ mpv.player
           THEN \E raises \in BOOLEAN :
                   IF raises THEN CommitPlayer(spawn(p, c))
                   ELSE CommitPlayer(loadfile(p, c))
           ELSE CommitPlayer(spawn(p, c))
    /\ PlayerFrame

\* stop(), called by the session.
Stop ==
    /\ mpv.call.pc = "idle"
    /\ Player # mpv_stop(Player)
    /\ CommitPlayer(mpv_stop(Player))
    /\ PlayerFrame

\* The file the python-mpv instance plays comes to its end, or cannot be
\* played (file not found): python-mpv queues an end-file event.
FileEnds ==
    /\ mpv.loaded # NoPlay
    /\ \E error \in BOOLEAN :
          CommitPlayer([unload(Player) EXCEPT
                           !.plays[mpv.loaded].failed = @ \/ error])
    /\ PlayerFrame

\* _on_end_file, on the event thread of python-mpv: the next item of the
\* playlist is started, or the done callback is taken and invoked.
MpvOnEndFile ==
    /\ endfile # <<>>
    /\ LET ended == Head(endfile)
           p == [Player EXCEPT !.endfile = Tail(@)]
       IN  IF mpv.playlist # <<>>
           THEN LET next_item == Head(mpv.playlist)
                    q == [p EXCEPT !.mpv.playlist = Tail(@)]
                IN  IF next_item = "network"
                    THEN CommitPlayer(spawn(q, mpv.owner))
                    ELSE \E raises \in BOOLEAN :
                            IF raises THEN CommitPlayer(spawn(q, mpv.owner))
                            ELSE CommitPlayer(loadfile(q, mpv.owner))
           ELSE CommitPlayer(take_callback([p EXCEPT !.mpv.is_playing = FALSE], ended))
    /\ PlayerFrame

\* _play_subprocess_playlist, lines 295-310: without the mpv binary the
\* thread returns; otherwise the subprocess is started and tracked.
WorkerStart ==
    /\ \E wk \in workers :
          /\ wk.pc = "start"
          /\ IF ~mpv.binary
             THEN CommitPlayer([Player EXCEPT !.workers = @ \ {wk},
                                              !.plays[wk.call].failed = TRUE])
             ELSE CommitPlayer([Player EXCEPT
                      !.workers = (@ \ {wk}) \cup {[wk EXCEPT !.pc = "wait"]},
                      !.mpv.current_proc = wk.call,
                      !.mpv.is_playing = TRUE,
                      !.plays[wk.call].started = TRUE])
    /\ PlayerFrame

\* proc.wait() returns: the subprocess has played its playlist, or has
\* failed (file not found).
WorkerProcEnds ==
    /\ \E wk \in workers :
          /\ wk.pc = "wait"
          /\ \E error \in BOOLEAN :
                CommitPlayer([Player EXCEPT
                    !.workers = (@ \ {wk}) \cup {[wk EXCEPT !.pc = "finally"]},
                    !.plays[wk.call].failed = @ \/ error])
    /\ PlayerFrame

\* _play_subprocess_playlist, lines 316-332: the finally clause.
WorkerFinally ==
    /\ \E wk \in workers :
          /\ wk.pc = "finally"
          /\ CommitPlayer(take_callback(
                [Player EXCEPT
                    !.workers = @ \ {wk},
                    !.mpv.current_proc = IF @ = wk.call THEN NoPlay ELSE @,
                    !.mpv.is_playing = FALSE],
                wk.call))
    /\ PlayerFrame

PlayerNext ==
    \/ Play
    \/ PlayRegister
    \/ Stop
    \/ FileEnds
    \/ MpvOnEndFile
    \/ WorkerStart
    \/ WorkerProcEnds
    \/ WorkerFinally

\* The player before any play() call; the other layers stay idle.
PlayerIdle ==
    /\ mpv = MpvInit(TRUE, TRUE)
    /\ endfile = <<>>
    /\ workers = {}
    /\ plays = <<>>

\* The satellite before any connection; the frame layer stays idle.
\* ------------------------------------------------------------------------
\* Threads: the hand-offs between the event loop, the audio thread and the
\* player threads
\* ------------------------------------------------------------------------

\* No stop() was called yet.  since: stop() was called and neither a wake
\* detection nor a request of the hub has come after it; ringing: the timer
\* rang when it was called; cut: it cut a TTS response or an announcement;
\* finished: the finished transitions run for that call.
NeverStopped ==
    [since |-> FALSE, ringing |-> FALSE, cut |-> FALSE, finished |-> 0]

\* No thread waits, nothing is queued, no request was sent.
ThreadsIdle ==
    /\ stop_call = NeverStopped
    /\ replays = 0
    /\ loop_calls = <<>>
    /\ issued = 0
    /\ reached = {}
    /\ audio_queue = <<>>
    /\ finishing = NoSession

\* The most threads asleep in the chime's done callback at a time.
MaxReplays == 1

\* wakeup, as one step of the audio thread.
wakeup(w) ==
    IF w.run.timer_finished
    THEN wakeup_stop_timer(w)
    ELSE IF muted \/ w.run.pipeline_active
    THEN w
    ELSE wakeup_start(send(w, <<"VoiceAssistantRequest">>))

\* stop, lines 393-394: the stop word is deactivated and the TTS player
\* stopped.
stop_player(w) ==
    [w EXCEPT !.stop = FALSE, !.tts = player_stop(@)]

\* stop, lines 395-396
stop_flags(w) ==
    [w EXCEPT !.run.continue_conversation = FALSE,
              !.run.pipeline_active = FALSE]

\* What the steps of one connected session leave alone.
RunFrame ==
    /\ UNCHANGED <<status, satellite, connected, entities>>
    /\ UNCHANGED <<loop_calls, issued, reached, audio_queue, finishing>>
    /\ UNCHANGED <<fvars, evars, pvars>>

\* A request of the hub was handled on the event loop, with result w.
Requested(s, w) ==
    /\ Commit(s, w)
    /\ stop_call' = [stop_call EXCEPT !.since = FALSE]
    /\ UNCHANGED <<audio, replays>>
    /\ RunFrame

\* The hub sends a pipeline event.
RunVoiceEvent(s) ==
    /\ status[s] = "live"
    /\ \E event_type \in VoiceEvents : \E flag \in Flags(event_type) :
          Requested(s, handle_voice_event(World(s), s, event_type, flag))
    /\ UNCHANGED muted

\* The hub reports a finished timer.
RunTimerEvent(s) ==
    /\ status[s] = "live"
    /\ Requested(s, handle_timer_event(World(s), s))
    /\ UNCHANGED muted

\* The hub asks for an announcement.
RunAnnounceRequest(s) ==
    /\ status[s] = "live"
    /\ \E start_conversation \in BOOLEAN :
          Requested(s, handle_announce(World(s), s, start_conversation))
    /\ UNCHANGED muted

\* The hub switches the mute switch.
RunMuteCommand(s) ==
    /\ status[s] = "live"
    /\ \E new_state \in BOOLEAN :
          /\ muted' = new_state
          /\ Requested(s, send(set_muted(World(s), new_state), <<"SwitchStateResponse">>))

\* process_audio: a wake model fires and the satellite is not muted; wakeup.
RunWakeup(s) ==
    /\ AudioTarget(s)
    /\ ~muted
    /\ Commit(s, wakeup(OnThread(World(s), "audio")))
    /\ stop_call' = [stop_call EXCEPT !.since = FALSE]
    /\ UNCHANGED <<muted, audio, replays>>
    /\ RunFrame

\* process_audio: the stop model fires while it is active and the satellite
\* is not muted; stop() is called and runs its first two statements.
StopCalled(s) ==
    /\ AudioTarget(s)
    /\ stop_active
    /\ ~muted
    /\ Commit(s, stop_player(OnThread(World(s), "audio")))
    /\ audio' = [pc |-> "stop_flags", s |-> s]
    /\ stop_call' = [since |-> TRUE,
                     ringing |-> sess[s].timer_finished,
                     cut |-> tts.playing \in {"tts", "announce"},
                     finished |-> 0]
    /\ UNCHANGED <<muted, replays>>
    /\ RunFrame

\* stop clears _continue_conversation and _pipeline_active.
StopFlags ==
    /\ audio.pc = "stop_flags"
    /\ Commit(audio.s, stop_flags(OnThread(World(audio.s), "audio")))
    /\ audio' = [pc |-> "stop", s |-> audio.s]
    /\ UNCHANGED <<muted, stop_call, replays>>
    /\ RunFrame

\* stop tests _timer_finished: the timer is cleared, or the run finished.
StopFinish ==
    /\ audio.pc = "stop"
    /\ Commit(audio.s, stop_finish(OnThread(World(audio.s), "audio")))
    /\ audio' = [pc |-> "idle", s |-> NoSession]
    /\ stop_call' = IF sess[audio.s].timer_finished
                    THEN stop_call
                    ELSE [stop_call EXCEPT !.finished = @ + 1]
    /\ UNCHANGED <<muted, replays>>
    /\ RunFrame

\* The player's thread handles one end of playback.  The callback of the
\* chime sleeps a second before it calls _play_timer_finished; the other
\* callbacks run at once.
RunEndFile ==
    /\ tts.pending > 0
    /\ LET handled == [tts EXCEPT !.pending = @ - 1]
           s == tts.owner
           taken == [handled EXCEPT !.done_callback = "none", !.owner = NoSession]
       IN  IF tts.done_callback = "none"
           THEN /\ tts' = handled
                /\ out' = <<>>
                /\ wrote' = NotWritten
                /\ UNCHANGED <<sess, stop_active, music, stop_call, replays>>
           ELSE IF tts.done_callback = "timer_replay"
           THEN /\ replays < MaxReplays
                /\ replays' = replays + 1
                /\ tts' = taken
                /\ out' = <<>>
                /\ wrote' = NotWritten
                /\ UNCHANGED <<sess, stop_active, music, stop_call>>
           ELSE /\ Commit(s, run_done_callback(
                                 [OnThread(World(s), "player") EXCEPT !.tts = taken],
                                 s, tts.done_callback))
                /\ stop_call' = IF stop_call.since /\ stop_call.cut
                                THEN [stop_call EXCEPT !.finished = @ + 1]
                                ELSE stop_call
                /\ UNCHANGED replays
    /\ UNCHANGED <<muted, audio>>
    /\ RunFrame

\* The second of sleep is over: _play_timer_finished.
ChimeReplay(s) ==
    /\ replays > 0
    /\ status[s] = "live"
    /\ Commit(s, play_timer_finished(OnThread(World(s), "player"), s))
    /\ replays' = replays - 1
    /\ UNCHANGED <<muted, audio, stop_call>>
    /\ RunFrame

\* One connected session, the audio thread and the player's threads.
RunNext ==
    \/ \E s \in Sessions :
          \/ RunVoiceEvent(s)
          \/ RunTimerEvent(s)
          \/ RunAnnounceRequest(s)
          \/ RunMuteCommand(s)
          \/ RunWakeup(s)
          \/ StopCalled(s)
          \/ ChimeReplay(s)
    \/ StopFlags
    \/ StopFinish
    \/ PlaybackEnds
    \/ RunEndFile

Init ==
    /\ SatelliteInit
    /\ FrameIdle
    /\ EngineIdle
    /\ PlayerIdle
    /\ ThreadsIdle

Spec == Init /\ [][Next]_vars

\* One connection and the byte stream of its peer; the satellite stays idle.
InitFrame ==
    /\ FrameInit
    /\ SatelliteIdle
    /\ EngineIdle
    /\ PlayerIdle
    /\ ThreadsIdle

SpecFrame == InitFrame /\ [][FrameNext]_vars

\* One connection and a peer that writes whole frames; the satellite stays
\* idle.
InitPackets ==
    /\ PacketsInit
    /\ SatelliteIdle
    /\ EngineIdle
    /\ PlayerIdle
    /\ ThreadsIdle

SpecPackets == InitPackets /\ [][FrameNext]_vars

\* The engine from its start, with the connections of the hub, the mute
\* switch and the clock.
InitEngine ==
    /\ SatelliteInit
    /\ FrameIdle
    /\ EngineInit
    /\ PlayerIdle
    /\ ThreadsIdle

SpecEngine == InitEngine /\ [][EngineNext]_vars

\* The engine and the handler of VoiceAssistantSetConfiguration, with one
\* session connected.
InitConfig ==
    /\ SatelliteLive
    /\ FrameIdle
    /\ EngineInit
    /\ PlayerIdle
    /\ ThreadsIdle

SpecConfig == InitConfig /\ [][ConfigNext]_vars

\* One player and its callers; the other layers stay idle.
InitPlayer ==
    /\ SatelliteIdle
    /\ FrameIdle
    /\ EngineIdle
    /\ PlayerInit
    /\ ThreadsIdle

SpecPlayer == InitPlayer /\ [][PlayerNext]_vars

\* One connected session with its runs, the stop word and the timer.
InitRun ==
    /\ SatelliteLive
    /\ FrameIdle
    /\ EngineIdle
    /\ PlayerIdle
    /\ ThreadsIdle

SpecRun == InitRun /\ [][RunNext]_vars

\* ------------------------------------------------------------------------
\* The order in which start requests and audio chunks reach the transport
\* ------------------------------------------------------------------------

\* The most pipeline start requests sent, and the most writes waiting in the
\* event loop's queue of callbacks.
MaxRuns == 2
MaxCalls == 2

\* A queue of callbacks that runs the newest call first.
call_soon_first(q, calls) == calls \o q

\* loop.call_soon_threadsafe: the event loop runs the callbacks in the order
\* in which they were handed to it.
call_soon(q, calls) == q \o calls

\* 1 when the messages hold a pipeline start request.
Starts(msgs) ==
    IF "VoiceAssistantRequest" \in Range(msgs) THEN 1 ELSE 0

\* The start requests and audio chunks among the messages a handler gave to
\* send_messages on thread t, when n start requests had been sent before:
\* a start request opens run n + 1, an audio chunk belongs to run n.
RECURSIVE Calls(_, _, _)
Calls(msgs, n, t) ==
    IF msgs = <<>>
    THEN <<>>
    ELSE IF Head(msgs) = "VoiceAssistantRequest"
    THEN <<[msg |-> "VoiceAssistantRequest", run |-> n + 1, thread |-> t]>>
             \o Calls(Tail(msgs), n + 1, t)
    ELSE IF Head(msgs) = "VoiceAssistantAudio"
    THEN <<[msg |-> "VoiceAssistantAudio", run |-> n, thread |-> t]>>
             \o Calls(Tail(msgs), n, t)
    ELSE Calls(Tail(msgs), n, t)

\* send_messages, lines 89-97: what handler result w wrote goes to the
\* transport at once when it was written inline, and to the loop's callbacks
\* when it was given to call_soon_threadsafe.
Written(w) ==
    LET calls == Calls(w.out, issued, w.thread)
    IN  /\ issued + Starts(w.out) <= MaxRuns
        /\ issued' = issued + Starts(w.out)
        /\ IF w.wrote.how = "scheduled"
           THEN /\ Len(loop_calls) + Len(calls) <= MaxCalls
                /\ loop_calls' = call_soon(loop_calls, calls)
                /\ UNCHANGED reached
           ELSE /\ reached' = reached \cup Range(calls)
                /\ UNCHANGED loop_calls

\* _tts_finished up to and including its send_messages calls (lines
\* 426-434): w is the result of the whole callback that started from w0; when
\* the conversation continues the two flags are still to be set.
before_flags(w0, w) ==
    IF w0.run.continue_conversation
    THEN [w EXCEPT !.run.is_streaming_audio = w0.run.is_streaming_audio,
                   !.run.pipeline_active = w0.run.pipeline_active]
    ELSE w

\* _tts_finished, lines 435-436
continue_flags(w) ==
    [w EXCEPT !.run.is_streaming_audio = TRUE,
              !.run.pipeline_active = TRUE]

\* What the steps of the ordering leave alone.
OrderFrame ==
    /\ UNCHANGED <<status, satellite, connected, muted, entities, audio>>
    /\ UNCHANGED <<stop_call, replays, audio_queue>>
    /\ UNCHANGED <<fvars, evars, pvars>>

\* The hub sends a pipeline event; the event loop handles it.
OrderVoiceEvent(s) ==
    /\ status[s] = "live"
    /\ \E event_type \in VoiceEvents : \E flag \in Flags(event_type) :
          LET w == handle_voice_event(World(s), s, event_type, flag)
          IN  Commit(s, w) /\ Written(w)
    /\ UNCHANGED finishing
    /\ OrderFrame

\* The hub asks for an announcement; the event loop handles it.
OrderAnnounceRequest(s) ==
    /\ status[s] = "live"
    /\ \E start_conversation \in BOOLEAN :
          LET w == handle_announce(World(s), s, start_conversation)
          IN  Commit(s, w) /\ Written(w)
    /\ UNCHANGED finishing
    /\ OrderFrame

\* process_audio: a wake model fires; wakeup on the audio thread.
OrderWakeup(s) ==
    /\ AudioTarget(s)
    /\ ~muted
    /\ LET w == wakeup(OnThread(World(s), "audio"))
       IN  Commit(s, w) /\ Written(w)
    /\ UNCHANGED finishing
    /\ OrderFrame

\* process_audio, line 296: handle_audio of the next chunk on the audio
\* thread.
OrderChunk(s) ==
    /\ AudioTarget(s)
    /\ LET w == handle_audio(OnThread(World(s), "audio"))
       IN  Commit(s, w) /\ Written(w)
    /\ UNCHANGED finishing
    /\ OrderFrame

\* The player's thread handles one end of playback and runs the registered
\* callback up to its last send_messages call.
OrderEndFile ==
    /\ tts.pending > 0
    /\ finishing = NoSession
    /\ LET handled == [tts EXCEPT !.pending = @ - 1]
           s == tts.owner
           taken == [handled EXCEPT !.done_callback = "none", !.owner = NoSession]
           w0 == [OnThread(World(s), "player") EXCEPT !.tts = taken]
           w == before_flags(w0, run_done_callback(w0, s, tts.done_callback))
       IN  IF tts.done_callback = "none"
           THEN /\ tts' = handled
                /\ out' = <<>>
                /\ wrote' = NotWritten
                /\ UNCHANGED <<sess, stop_active, music>>
                /\ UNCHANGED <<loop_calls, issued, reached, finishing>>
           ELSE /\ Commit(s, w)
                /\ Written(w)
                /\ finishing' = IF w0.run.continue_conversation
                                THEN s
                                ELSE NoSession
    /\ OrderFrame

\* The player's thread sets _is_streaming_audio and _pipeline_active.
OrderContinue ==
    /\ finishing # NoSession
    /\ Commit(finishing, continue_flags(World(finishing)))
    /\ finishing' = NoSession
    /\ UNCHANGED <<loop_calls, issued, reached>>
    /\ OrderFrame

\* The event loop runs the oldest of its callbacks: the write reaches the
\* transport.
LoopRuns ==
    /\ loop_calls # <<>>
    /\ reached' = reached \cup {Head(loop_calls)}
    /\ loop_calls' = Tail(loop_calls)
    /\ out' = <<>>
    /\ wrote' = NotWritten
    /\ UNCHANGED <<sess, stop_active, tts, music, issued, finishing>>
    /\ OrderFrame

\* One connected session: the event loop, the audio thread and the player's
\* thread.
OrderNext ==
    \/ \E s \in Sessions :
          \/ OrderVoiceEvent(s)
          \/ OrderAnnounceRequest(s)
          \/ OrderWakeup(s)
          \/ OrderChunk(s)
    \/ OrderEndFile
    \/ OrderContinue
    \/ LoopRuns
    \/ PlaybackEnds

SpecOrder == InitRun /\ [][OrderNext]_vars

\* ------------------------------------------------------------------------
\* Shutdown: the audio queue and the sentinel
\* ------------------------------------------------------------------------

\* The most chunks waiting in ServerState.audio_queue.
MaxQueue == 1

\* The most models loaded when a VoiceAssistantSetConfiguration arrives.
MaxLoaded == 1

\* main's finally clause has put the sentinel on the queue: it waits there,
\* or process_audio has got it.
SentinelPlaced == "None" \in Range(audio_queue) \/ eng.pc = "done"

\* The variables the queue's steps leave alone.
QueueFrame ==
    /\ out' = <<>>
    /\ wrote' = NotWritten
    /\ UNCHANGED <<status, sess, satellite, connected, muted, entities,
                   stop_active, tts, music, audio>>
    /\ UNCHANGED <<wake_words, is_active, wake_words_changed, now, forwarded>>
    /\ UNCHANGED <<stop_call, replays, loop_calls, issued, reached, finishing>>
    /\ UNCHANGED <<fvars, pvars>>

\* sd_callback: the input stream, open until main leaves its with block,
\* puts a chunk on the queue.
PutChunk ==
    /\ ~SentinelPlaced
    /\ Len(audio_queue) < MaxQueue
    /\ audio_queue' = Append(audio_queue, "chunk")
    /\ UNCHANGED <<eng, cfg, did>>
    /\ QueueFrame

\* main's finally clause, lines 241-243: the sentinel is put on the queue
\* and the event loop's thread waits in join.  No handler is half done: they
\* run on the thread that runs main.
PutSentinel ==
    /\ ~SentinelPlaced
    /\ cfg.pc = "idle"
    /\ audio_queue' = Append(audio_queue, "None")
    /\ UNCHANGED <<eng, cfg, did>>
    /\ QueueFrame

\* audio_queue.get(): the oldest item leaves the queue; get blocks while
\* the queue is empty.
QueueGet ==
    /\ eng.pc = "get"
    /\ audio_queue # <<>>
    /\ Dequeued(Head(audio_queue))
    /\ audio_queue' = Tail(audio_queue)
    /\ QueueFrame

\* The steps of process_audio on a chunk it has got.
ChunkStep ==
    \/ RefreshClear
    \/ RefreshNext
    \/ HandleAudio
    \/ WakeNext
    \/ StopTest

\* The handler of VoiceAssistantSetConfiguration, while the event loop runs.
LoopSetConfiguration(s) ==
    /\ ~SentinelPlaced
    /\ Len(wake_words) <= MaxLoaded
    /\ SetConfiguration(s)
LoopSetActive == ~SentinelPlaced /\ SetActive
LoopSetChanged == ~SentinelPlaced /\ SetChanged

ShutdownNext ==
    \/ PutChunk
    \/ PutSentinel
    \/ QueueGet
    \/ ChunkStep
    \/ \E s \in Sessions : LoopSetConfiguration(s)
    \/ LoopSetActive
    \/ LoopSetChanged

\* One session connected, the default model loaded, nothing queued.
InitShutdown ==
    /\ SatelliteLive
    /\ FrameIdle
    /\ EngineIdle
    /\ PlayerIdle
    /\ ThreadsIdle

\* The engine and the handler of VoiceAssistantSetConfiguration with one
\* session connected, the microphone and the shutdown of main.  The thread
\* of process_audio is scheduled as long as it can take a step.
SpecShutdown ==
    /\ InitShutdown
    /\ [][ShutdownNext]_vars
    /\ WF_vars(QueueGet \/ ChunkStep)

\* ------------------------------------------------------------------------
\* Frame layer: properties
\* ------------------------------------------------------------------------

\* What one data_received call on a fresh connection makes of the bytes.
OneCall(bytes) == data_received(connection_made(APIServerInit), bytes)

Delivered == SubSeq(stream, 1, off)

\* C6: however the bytes delivered so far were split over data_received
\* calls, the packets dispatched are, in order, those that a single call
\* with all of these bytes dispatches.
C6_PartialDeliveryInvariance ==
    conn.dispatched = OneCall(Delivered).dispatched

\* C6 witness: a HelloRequest frame with a payload byte and an empty
\* DisconnectRequest frame; the first is dispatched and a call has ended two
\* bytes into the header of the second.
C6_Witness ==
    /\ stream = <<0, 1, 1, 5, 0, 0, 5>>
    /\ off = 6
    /\ conn.dispatched = <<[type |-> 1, data |-> <<5>>]>>
    /\ conn.has_buffer /\ conn.buffer = <<0, 0>>

\* The buffer starts with a complete varint that is not zero.
BadPreamble ==
    /\ conn.err = "preamble"
    /\ conn.buffer[1] \in 1..127

\* The whole stream is in, and the length or type varint has no last byte.
UndecodableVarint ==
    /\ conn.err \in {"length", "type"}
    /\ off = Len(stream)

\* C7 (as claimed): once data_received has met a preamble that is not 0 (or,
\* the other case of the claim, a length or type varint that cannot be
\* decoded: UndecodableVarint), the transport is closed.
C7_MalformedFrameTornDown ==
    BadPreamble => conn.transport # "open"

\* The buffer starts with a complete frame header whose declared length is
\* more than any stream holds.
OversizedHeader ==
    /\ conn.has_buffer
    /\ conn.buffer_len >= 3
    /\ LET s0 == [conn EXCEPT !.pos = 0]
           preamble == read_varuint(s0)
           s1 == [s0 EXCEPT !.pos = preamble.pos]
           length == read_varuint(s1)
           s2 == [s1 EXCEPT !.pos = length.pos]
           msg_type == read_varuint(s2)
       IN  /\ preamble.val = 0
           /\ length.val > MaxWire
           /\ msg_type.val # -1

\* C8 (as claimed): a header that declares far more payload than follows
\* gets the connection torn down.
C8_OversizedFrameTornDown ==
    OversizedHeader => conn.transport # "open"

\* C9 (as claimed): a packet is dispatched only from a frame whose first byte
\* is 0x00, and only once the header and the payload are all in.
C9_PreambleByteIsZero ==
    Len(conn.dispatched) >= 1 =>
        /\ stream[1] = 0
        /\ off >= 3 + Len(conn.dispatched[1].data)

\* C10 (as claimed): after connection_lost the receive buffer is empty.
C10_LostBufferReset ==
    (conn.transport = "lost" /\ ~conn.raised) =>
        /\ ~conn.has_buffer
        /\ conn.buffer_len = 0

\* C11 (as claimed): a packet whose type has no message class is ignored; no
\* exception comes out of data_received.
C11_UnknownTypeIgnored ==
    (\E i \in 1..Len(conn.dispatched) : conn.dispatched[i].type \notin KnownTypes)
        => ~conn.raised

\* The responses the claim asks for, for the packets from the i-th on: one
\* for each HelloRequest, ConnectRequest, PingRequest and DisconnectRequest,
\* none once a DisconnectRequest has closed the transport.
RECURSIVE Responses(_, _)
Responses(packets, i) ==
    IF i > Len(packets)
    THEN <<>>
    ELSE LET t == packets[i].type
         IN  IF t = HelloRequestType
             THEN <<"HelloResponse">> \o Responses(packets, i + 1)
             ELSE IF t = ConnectRequestType
             THEN <<"ConnectResponse">> \o Responses(packets, i + 1)
             ELSE IF t = PingRequestType
             THEN <<"PingResponse">> \o Responses(packets, i + 1)
             ELSE IF t = DisconnectRequestType
             THEN <<"DisconnectResponse">>
             ELSE Responses(packets, i + 1)

\* C14: every HelloRequest, ConnectRequest and PingRequest dispatched while
\* the transport is open is answered with its response, in order, and none of
\* the three reaches handle_message.
C14_HandshakeAnswered ==
    /\ conn.written = Responses(conn.dispatched, 1)
    /\ \A i \in 1..Len(conn.handled) :
          conn.handled[i] \notin
              {HelloRequestType, ConnectRequestType, PingRequestType}

\* C14 witness: a PingRequest, a HelloRequest and a ConnectRequest have been
\* answered in this order.
C14_Witness ==
    /\ stream = Frame(PingRequestType) \o Frame(HelloRequestType)
                    \o Frame(ConnectRequestType)
    /\ off = 9
    /\ conn.written = <<"PingResponse", "HelloResponse", "ConnectResponse">>
    /\ conn.handled = <<>>

\* C15: once a DisconnectRequest has closed the transport, the last thing
\* written is the DisconnectResponse and there is no write function.
C15_DisconnectAnsweredThenClosed ==
    conn.transport = "closed" =>
        /\ ~conn.writelines
        /\ conn.written # <<>>
        /\ conn.written[Len(conn.written)] = "DisconnectResponse"

\* C15 witness: HelloRequest, DisconnectRequest and PingRequest came in one
\* call; the transport is closed after the DisconnectResponse and the
\* PingRequest got no answer.
C15_Witness ==
    /\ stream = Frame(HelloRequestType) \o Frame(DisconnectRequestType)
                    \o Frame(PingRequestType)
    /\ off = 9
    /\ conn.transport = "closed"
    /\ Len(conn.dispatched) = 3
    /\ conn.written = <<"HelloResponse", "DisconnectResponse">>

\* ------------------------------------------------------------------------
\* Satellite: properties
\* ------------------------------------------------------------------------

\* The session has a connection (its transport may have been closed by a
\* DisconnectRequest, but connection_lost has not been called).
Alive(s) == status[s] \in {"made", "live", "closing"}

\* Nothing of a run is left: no sound of the TTS player, no ringing timer, no
\* pipeline run, no wakeup or stop under way.
Quiet(s) ==
    /\ tts.playing = "none"
    /\ ~sess[s].timer_finished
    /\ ~sess[s].pipeline_active
    /\ audio.pc = "idle"

\* C1 (as claimed): the stop word is active while a cue, a TTS response, an
\* announcement or the timer chime of the session plays or the timer rings,
\* and it is inactive once the session is back to rest.
C1_StopWordGating ==
    \A s \in Sessions :
        (Alive(s) /\ satellite = s) =>
            /\ (tts.playing # "none" \/ sess[s].timer_finished) => stop_active
            /\ Quiet(s) => ~stop_active

\* C2 (as claimed): between handlers, a session streams audio only while
\* its pipeline is active.
C2_StreamingOnlyWhilePipelineActive ==
    \A s \in Sessions :
        (audio.pc = "idle" /\ sess[s].is_streaming_audio) =>
            sess[s].pipeline_active

\* C3 (as claimed): while wakeup() or stop() is under way, no protocol
\* message and no connection event is handled.
C3_WakeAndStopSerialized ==
    [][audio.pc # "idle" => ~NetworkStep]_vars

\* C4 (as claimed): while the session in the satellite slot has a
\* connection, no step puts another session in the slot.
C4_LiveHolderNotReplaced ==
    [][\A s \in Sessions :
          (satellite = s /\ Alive(s) /\ Alive(s)') => satellite' = s]_vars

\* C5: the step that loses the connection of the session in the satellite
\* slot leaves the run state cleared, both players stopped, the stop word
\* inactive, connected false and the slot empty.
C5_ConnectionLostClears ==
    [][\A s \in Sessions :
          (Alive(s) /\ status'[s] = "lost" /\ satellite = s) =>
              /\ sess'[s] = FreshRun
              /\ ~music'.is_playing
              /\ tts'.playing = "none"
              /\ ~stop_active'
              /\ ~connected'
              /\ satellite' = NoSession]_vars

\* C5 witness: the connection was lost while the timer rang (the chime was
\* cut, its replay callback is still registered), and everything is cleared.
C5_Witness ==
    /\ status[1] = "lost"
    /\ tts.done_callback = "timer_replay"
    /\ tts.pending = 1
    /\ tts.playing = "none"
    /\ sess[1] = FreshRun
    /\ ~stop_active /\ ~connected /\ ~music.is_playing
    /\ satellite = NoSession

\* C12 (as claimed): a send_messages call never raises, whatever the event
\* loop does to the transport while the call is under way.
C12_SendNeverRaises ==
    wrote.how # "raised"

C16_WakeupWhenIdle ==
    [][(audio.pc = "wakeup_send" /\ audio'.pc = "idle") =>
          /\ out' = <<"VoiceAssistantRequest">>
          /\ music'.ducked
          /\ tts'.playing = "wake"
          /\ sess'[audio.s].is_streaming_audio
          /\ sess'[audio.s].pipeline_active]_vars

C18_WakeStopsTimer ==
    [][\A s \in Sessions :
          (sess[s].timer_finished /\ audio.pc = "idle" /\ AudioWakeup(s)) =>
              /\ ~sess'[s].timer_finished
              /\ tts'.playing = "none"
              /\ out' = <<>>
              /\ UNCHANGED audio
              /\ sess'[s].is_streaming_audio = sess[s].is_streaming_audio
              /\ sess'[s].pipeline_active = sess[s].pipeline_active]_vars

\* C18 witness: the chime was cut by a wake detection: the timer no longer
\* rings, the replay callback and the end of the cut chime are still to be
\* handled, and the stop word is still armed.
C18_Witness ==
    /\ status[1] = "live"
    /\ audio.pc = "idle"
    /\ ~sess[1].timer_finished
    /\ tts.playing = "none"
    /\ tts.done_callback = "timer_replay"
    /\ tts.pending = 1
    /\ stop_active
    /\ out = <<>>

\* The session has its write function.
Writable(s) == status[s] \in {"made", "live"}

\* The step is the player thread handling an end of playback: no other step
\* takes one off the pending ends.
EndHandled == tts'.pending = tts.pending - 1

\* C19: when the end of the TTS playback is handled and no continuation was
\* asked for, one VoiceAssistantAnnounceFinished and nothing else is sent,
\* the music player is unducked, the pipeline is inactive and the callback
\* is used up.
C19_TtsFinishedNoContinuation ==
    [][\A s \in Sessions :
          (/\ tts.done_callback = "tts_finished"
           /\ tts.owner = s
           /\ Writable(s)
           /\ ~sess[s].continue_conversation
           /\ EndHandled) =>
              /\ out' = <<"VoiceAssistantAnnounceFinished">>
              /\ ~music'.ducked
              /\ ~sess'[s].pipeline_active
              /\ tts'.done_callback = "none"]_vars

\* C19 witness: the player thread has handled the end of the TTS response
\* of a run (RUN_END has not come yet) and reported it finished.
C19_Witness ==
    /\ status[1] = "live"
    /\ out = <<"VoiceAssistantAnnounceFinished">>
    /\ wrote = [thread |-> "player", how |-> "scheduled"]
    /\ sess[1].tts_url /\ sess[1].tts_played
    /\ ~sess[1].pipeline_active
    /\ ~music.ducked
    /\ tts.playing = "none" /\ tts.done_callback = "none" /\ tts.pending = 0

\* C20: when the end of a TTS response or an announcement is handled and a
\* continuation was asked for, VoiceAssistantAnnounceFinished and then one
\* VoiceAssistantRequest are sent, streaming and pipeline are on, the
\* continuation flag is cleared and the ducking is left as it is.
C20_TtsFinishedContinues ==
    [][\A s \in Sessions :
          (/\ tts.done_callback \in {"tts_finished", "announce_resume", "announce_idle"}
           /\ tts.owner = s
           /\ Writable(s)
           /\ sess[s].continue_conversation
           /\ EndHandled) =>
              /\ out' \in {<<"VoiceAssistantAnnounceFinished", "VoiceAssistantRequest">>,
                            <<"MediaPlayerStateResponse",
                              "VoiceAssistantAnnounceFinished", "VoiceAssistantRequest">>}
              /\ sess'[s].is_streaming_audio
              /\ sess'[s].pipeline_active
              /\ ~sess'[s].continue_conversation
              /\ music'.ducked = music.ducked]_vars

\* C20 witness: the player thread has handled the end of a TTS response
\* after INTENT_END asked for a continuation: the next run is requested and
\* the music stays ducked.
C20_Witness ==
    /\ status[1] = "live"
    /\ out = <<"VoiceAssistantAnnounceFinished", "VoiceAssistantRequest">>
    /\ wrote = [thread |-> "player", how |-> "scheduled"]
    /\ sess[1].tts_played
    /\ sess[1].is_streaming_audio /\ sess[1].pipeline_active
    /\ ~sess[1].continue_conversation
    /\ music.ducked
    /\ tts.done_callback = "none"

\* ------------------------------------------------------------------------
\* Engine: properties
\* ------------------------------------------------------------------------

\* The step is one of process_audio.
EngineActed == did' # did \/ eng' # eng

\* C21: while the satellite is muted, no step of process_audio calls
\* wakeup() or stop() and none sends a VoiceAssistantAudio message, whatever
\* the detectors report and whether the session streams or not.
C21_MutedBlocksActivation ==
    [][(muted /\ EngineActed) =>
          /\ did'.call \notin {"wakeup", "stop"}
          /\ "VoiceAssistantAudio" \notin Range(out')]_vars

\* A wake model fired on a chunk while the satellite was muted and the
\* session was streaming.
C21_Witness ==
    /\ muted
    /\ eng.pc \in {"wake", "stop"}
    /\ did.fired
    /\ did.call = "none"
    /\ satellite # NoSession
    /\ status[satellite] = "live"
    /\ sess[satellite].is_streaming_audio

\* C22: a wake detection is forwarded to wakeup() only if none was forwarded
\* before or more than refractory_seconds have passed since the last one
\* forwarded, and it is forwarded then (the satellite not muted, a session
\* registered), whichever model fired.
C22_OneActivationPerRefractoryInterval ==
    [][(eng.pc = "wake" /\ EngineActed /\ did'.fired) =>
          /\ did'.call = "wakeup" =>
                (forwarded = Never \/ now - forwarded > refractory_seconds)
          /\ (/\ ~muted
              /\ satellite # NoSession
              /\ (forwarded = Never \/ now - forwarded > refractory_seconds))
                => did'.call = "wakeup"]_vars

\* The second of two active models fired in the refractory interval the
\* first one's detection began, and was not forwarded.
C22_Witness ==
    /\ Cardinality(eng.wake_words) = 2
    /\ eng.pc = "stop"
    /\ did.fired
    /\ did.call = "none"
    /\ ~muted
    /\ satellite # NoSession
    /\ forwarded # Never
    /\ now - forwarded <= refractory_seconds

\* C23: on a chunk on which the stop model fires, the detection is forwarded
\* to stop() if and only if stop_word.is_active is set and the satellite is
\* not muted, whatever the refractory clock of the wake words says.
C23_StopWordNotRefractoryGated ==
    [][(eng.pc = "stop" /\ EngineActed /\ did'.fired) =>
          (did'.call = "stop" <=> (stop_active /\ ~muted))]_vars

\* A stop detection was forwarded inside the refractory interval of a wake
\* detection.
C23_Witness ==
    /\ did.call = "stop"
    /\ did.fired
    /\ eng.last_active # Never
    /\ now - eng.last_active <= refractory_seconds

\* C24: no exception raised while a chunk is handled ends the loop of
\* process_audio: the loop is left only through the sentinel.
C24_LoopSurvivesExceptions ==
    /\ eng.pc # "dead"
    /\ did.raised => eng.pc \in {"get", "refresh_clear", "handle_audio"}

\* C25: every chunk process_audio dequeues is fed, as features, to the stop
\* model.
C25_StopModelFedEveryChunk == did.chunk # "unfed"

\* C26: when a VoiceAssistantSetConfiguration has been handled, the active
\* models are exactly those of the available ids its list named.
C26_ActiveSetIsRequested == cfg.pc = "idle" => is_active = cfg.want

\* C27: at most max_active_wake_words models are active at a time.
C27_AtMostTwoActive == Cardinality(is_active) <= max_active_wake_words

\* A chunk dequeued after the last VoiceAssistantSetConfiguration was
\* handled is evaluated against the models that are active.
NewSetObserved ==
    (cfg.pc = "idle" /\ cfg.settled /\ eng.pc \in {"handle_audio", "wake", "stop"})
        => eng.wake_words = is_active

\* C28: the chunks dequeued after a VoiceAssistantSetConfiguration was
\* handled are evaluated against the new set of active models, and the
\* change makes the engine drop no chunk.
C28_ChangeObservedWithoutLoss ==
    /\ NewSetObserved
    /\ ~(eng.pc = "dead" /\ did.chunk = "unfed")

\* ------------------------------------------------------------------------
\* Player: properties
\* ------------------------------------------------------------------------

\* Nothing is playing or pending: no call in progress, no file loaded, no
\* end-file event undelivered, no worker thread.
PlayerQuiet ==
    /\ mpv.call.pc = "idle"
    /\ mpv.loaded = NoPlay
    /\ endfile = <<>>
    /\ workers = {}

\* C29: the done callback of a play() call is invoked at most once, never
\* on the end of another call's playback and never when the call started
\* nothing; and once everything has ended, the callback of every call that
\* started a playback has been invoked.
C29_DoneCallbackExactlyOnce ==
    \A c \in 1..Len(plays) :
        /\ plays[c].invoked <= 1
        /\ ~plays[c].misfired
        /\ plays[c].invoked > 0 => plays[c].started
        /\ (PlayerQuiet /\ plays[c].done_callback /\ plays[c].started)
              => plays[c].invoked = 1

\* C30: when the playback of the last play() call could not be performed,
\* the player ends up not playing and the call's done callback has been
\* invoked.
C30_FailedPlaybackFinishes ==
    \A c \in 1..Len(plays) :
        (PlayerQuiet /\ c = Len(plays) /\ plays[c].failed)
            => /\ ~mpv.is_playing
               /\ plays[c].done_callback => plays[c].invoked > 0


\* ------------------------------------------------------------------------
\* Satellite: the end of a run, stop(), the timer chime, muting
\* ------------------------------------------------------------------------

\* The step is session s handling VOICE_ASSISTANT_RUN_END.
RunEnd(s) ==
    /\ status[s] = "live"
    /\ Commit(s, handle_voice_event(World(s), s, "RUN_END", FALSE))
    /\ UNCHANGED <<status, satellite, connected, muted, entities, audio>>

\* RUN_END of a run that played no TTS takes the finished transition at
\* once: VoiceAssistantAnnounceFinished, then the next run is requested or
\* the pipeline goes idle and the music player is unducked.
RunEndWithoutTts(s) ==
    (RunEnd(s) /\ ~sess[s].tts_played) =>
        /\ ~stop_active'
        /\ IF sess[s].continue_conversation
           THEN /\ out' = <<"VoiceAssistantAnnounceFinished", "VoiceAssistantRequest">>
                /\ sess'[s].is_streaming_audio
                /\ sess'[s].pipeline_active
           ELSE /\ out' = <<"VoiceAssistantAnnounceFinished">>
                /\ ~sess'[s].pipeline_active
                /\ ~music'.ducked

\* RUN_END of a run whose TTS was started sends nothing and leaves the
\* pipeline, the stop word and the players as they are.
RunEndAfterTts(s) ==
    (RunEnd(s) /\ sess[s].tts_played) =>
        /\ out' = <<>>
        /\ sess'[s].pipeline_active = sess[s].pipeline_active
        /\ UNCHANGED <<stop_active, tts, music>>

\* The finished transition of a TTS response runs when its playback is over:
\* the response is not playing when the player thread calls _tts_finished.
FinishedAtCompletion ==
    (tts.done_callback = "tts_finished" /\ EndHandled) => tts.playing # "tts"

\* C31 (as claimed): RUN_END of a run without TTS takes the finished
\* transition at once; RUN_END of a run whose TTS was started takes none,
\* and the transition of that run is taken when its playback completes.
C31_RunEndFinishesOnceTtsDone ==
    [][/\ \A s \in Sessions : RunEndWithoutTts(s) /\ RunEndAfterTts(s)
       /\ FinishedAtCompletion]_vars


\* C40 (as claimed): while the satellite is muted no step sends a pipeline
\* start request and none makes a session stream; in particular the end of
\* a response cut by the mute switch starts no continuation.
C40_NoRunStartedWhileMuted ==
    [][(muted /\ muted') =>
          /\ "VoiceAssistantRequest" \notin Range(out')
          /\ \A s \in Sessions :
                sess'[s].is_streaming_audio => sess[s].is_streaming_audio]_vars


\* C35 (as claimed): when a connection is accepted after an earlier session
\* was lost, the construction succeeds: the entity list holds the media
\* player, the mute switch and the thinking sound switch once each, and the
\* new session is in the satellite slot with a fresh run state.
C35_NextSessionConstructed ==
    [][\A s \in Sessions :
          (/\ status[s] = "unborn"
           /\ status'[s] # "unborn"
           /\ \E r \in Sessions : status[r] = "lost") =>
              /\ status'[s] = "made"
              /\ entities' = <<"media_player", "mute", "thinking_sound">>
              /\ satellite' = s
              /\ sess'[s] = FreshRun]_vars

\* C36 (as claimed): the loss of the connection of a session that is not in
\* the satellite slot leaves the slot, the connected flag, the stop word
\* flag and what the two players play as they are.
C36_LossOfNonHolderChangesNothing ==
    [][\A s \in Sessions :
          (Alive(s) /\ status'[s] = "lost" /\ satellite # s) =>
              /\ UNCHANGED <<satellite, connected, stop_active>>
              /\ tts'.playing = tts.playing
              /\ music'.is_playing = music.is_playing]_vars


\* The step is the first of a stop() call.
StopBegins == audio.pc = "idle" /\ audio'.pc = "stop_flags"

\* The step is the last of a stop() call.
StopEnds == audio.pc = "stop" /\ audio'.pc = "idle"

\* C32 (as claimed): stop() deactivates the stop word and stops what the TTS
\* player plays; called while the timer rings it clears the ringing state
\* and sends nothing; called while the timer does not ring it ends with the
\* finished transition: VoiceAssistantAnnounceFinished is sent, the pipeline
\* is inactive and the timer state is as it was.
C32_StopTimerOrFinishRun ==
    [][/\ StopBegins => (~stop_active' /\ tts'.playing = "none")
       /\ (StopEnds /\ stop_call.ringing) =>
              /\ ~sess'[audio.s].timer_finished
              /\ out' = <<>>
       /\ (StopEnds /\ ~stop_call.ringing) =>
              /\ out' = <<"VoiceAssistantAnnounceFinished">>
              /\ ~sess'[audio.s].pipeline_active
              /\ ~stop_active'
              /\ sess'[audio.s].timer_finished = sess[audio.s].timer_finished]_vars

\* The replays of the chime that are pending: the threads asleep in its
\* done callback, and the callback registered with the TTS player.
PendingReplays ==
    replays + (IF tts.done_callback = "timer_replay" THEN 1 ELSE 0)

\* C33 (as claimed): at most one replay of the timer chime is pending at a
\* time, whatever timer events, wake detections and stops have come.
C33_OneChimeLoop == PendingReplays <= 1

\* C37 (as claimed): for a stop() that cut a TTS response or an
\* announcement, the finished transition runs once: not in stop() and in the
\* done callback of the cut playback both.
C37_StoppedTtsFinishesOnce ==
    stop_call.cut => stop_call.finished <= 1

\* C38 (as claimed): from the call of stop() until the next wake detection
\* or request of the hub, no step sends a pipeline start request and none
\* makes the session stream.
C38_StopStartsNoRun ==
    [][stop_call'.since =>
          /\ "VoiceAssistantRequest" \notin Range(out')
          /\ \A s \in Sessions :
                sess'[s].is_streaming_audio => sess[s].is_streaming_audio]_vars


\* ------------------------------------------------------------------------
\* Transport: start request before audio
\* ------------------------------------------------------------------------

C34_SentinelEndsProcessAudio ==
    SentinelPlaced ~> (eng.pc = "done" /\ audio_queue = <<>>)

====
